---- MODULE Spec2Model ----
(***************************************************************************)
(* wsgikit.HttpRequest: the streaming multipart/form-data decoder          *)
(* (_parse_multipart, _parse_data_block, _handle_part_line,                *)
(* _parse_to_files, _parse_to_body) and the bracket-notation field parser  *)
(* (_parse_param, _get_next_key) of src/wsgikit/wsgikit.pyx.               *)
(*                                                                         *)
(* Byte strings and text are sequences of symbols.  A symbol is one byte   *)
(* ("-", "x", CR, LF, ...) or one keyword of a header line taken as an     *)
(* atom ("Content-Disposition", "form-data", "name", "filename").  len()   *)
(* counts symbols.  Decoding bytes to text (_decode_value) keeps the       *)
(* symbols: every symbol of the model is ASCII.                            *)
(***************************************************************************)
EXTENDS Integers, Sequences, FiniteSets, TLC

VARIABLES
    body,               \* the bytes wsgi.input will deliver (CONTENT_LENGTH = Len(body))
    files_upload_on,    \* self._files_upload_on
    max_uploaded_files, \* self._max_uploaded_files
    max_filesize,       \* self._max_filesize
    max_content_length, \* self._max_content_length
    read_block_size,    \* self._read_block_size
    parts,              \* self._parts: part index -> part record
    last_line,          \* self._last_line
    files_counter,      \* self._files_counter
    body_length,        \* self._body_length
    disk,               \* spool files in uploaded_files_dir: tmp_name -> bytes written
    tmp_seq,            \* number of temporary names generated so far
    open_files,         \* spool files whose handle is open
    BODY,               \* self.BODY
    FILES,              \* self.FILES
    error,              \* the exception that aborted the decode, or "none"
    remaining,          \* _parse_multipart: remaining
    size,               \* _parse_multipart: size
    closing_seen,       \* history: the loop met a line starting with the closing boundary
    dispatched,         \* history: the lines the loops of _parse_data_block took up, in order
    pc,                 \* "read": in the read loop; "done": returned; "raised": aborted
    p_name,             \* the last _parse_param call: name
    p_value,            \* the last _parse_param call: value
    p_tree,             \* the dict the _parse_param calls fill (param_dict)
    p_prev,             \* history: param_dict before the last call
    p_err,              \* the exception the last _parse_param call raised, or "none"
    p_calls,            \* number of _parse_param calls made
    p_pc,               \* "idle": decoder runs, no calls; "call": before a call; "ret": after one
    content_type,       \* environ['CONTENT_TYPE'], None when absent
    query_string,       \* environ['QUERY_STRING'], None when absent
    QUERY,              \* self.QUERY
    body_reads,         \* number of instream.read calls issued at line 402
    flat,               \* history: the flat dict the body is the url-encoding of, if any
    g_storage,          \* the last getenv call: storage ("none" before the first call)
    g_key,              \* the last getenv call: key
    g_default,          \* the last getenv call: default_value
    g_result,           \* the last getenv call: value returned
    fs,                 \* the file system: path -> [type, data]
    m_file,             \* the last move call: file
    m_dest,             \* the last move call: destination
    m_overwrite,        \* the last move call: overwrite
    m_result,           \* the last move call: value returned, None if it raised
    m_err,              \* the last move call: exception raised, "none" if none
    m_prev,             \* history: fs before the last move call
    m_calls             \* number of move calls so far

vars == <<body, files_upload_on, max_uploaded_files, max_filesize, max_content_length,
          read_block_size, parts, last_line, files_counter, body_length, disk, tmp_seq, open_files,
          BODY, FILES, error, remaining, size, closing_seen, dispatched, pc,
          p_name, p_value, p_tree, p_prev, p_err, p_calls, p_pc,
          content_type, query_string, QUERY, body_reads, flat,
          g_storage, g_key, g_default, g_result,
          fs, m_file, m_dest, m_overwrite, m_result, m_err, m_prev, m_calls>>

mpvars == <<body, files_upload_on, max_uploaded_files, max_filesize, max_content_length,
            read_block_size, parts, last_line, files_counter, body_length, disk, tmp_seq, open_files,
            BODY, FILES, error, remaining, size, closing_seen, dispatched, pc>>

ppvars == <<p_name, p_value, p_tree, p_prev, p_err, p_calls, p_pc>>

uvars == <<content_type, query_string, QUERY, body_reads, flat>>

gvars == <<g_storage, g_key, g_default, g_result>>

mvars == <<fs, m_file, m_dest, m_overwrite, m_result, m_err, m_prev, m_calls>>

-----------------------------------------------------------------------------
(* Symbols *)

CR == "CR"

LF == "LF"

SP == " "

DQ == "\""

SQ == "'"

CRLF == <<CR, LF>>

None == <<"None">>

\* a file system without entries below the root
EmptyFs == [p \in {} |-> [type |-> "file", data |-> <<>>]]

Whitespace == {SP, CR, LF}

Digits == <<"0", "1", "2", "3", "4", "5", "6", "7", "8", "9">>

-----------------------------------------------------------------------------
(* bytes / str primitives *)

startswith(s, p) ==
    Len(s) >= Len(p) /\ SubSeq(s, 1, Len(p)) = p

endswith(s, p) ==
    Len(s) >= Len(p) /\ SubSeq(s, Len(s) - Len(p) + 1, Len(s)) = p

\* index of the first occurrence of sep in s at or after position from; 0 if none
RECURSIVE find(_, _, _)
find(s, sep, from) ==
    IF from + Len(sep) - 1 > Len(s) THEN 0
    ELSE IF s[from] = sep[1] /\ SubSeq(s, from, from + Len(sep) - 1) = sep THEN from
    ELSE find(s, sep, from + 1)

\* s.split(sep): n occurrences of sep give n + 1 pieces
RECURSIVE split(_, _)
split(s, sep) ==
    LET k == find(s, sep, 1) IN
    IF k = 0 THEN <<s>>
    ELSE <<SubSeq(s, 1, k - 1)>> \o split(SubSeq(s, k + Len(sep), Len(s)), sep)

RECURSIVE lstrip(_)
lstrip(s) ==
    IF s # <<>> /\ Head(s) \in Whitespace THEN lstrip(Tail(s)) ELSE s

RECURSIVE rstrip(_)
rstrip(s) ==
    IF s # <<>> /\ s[Len(s)] \in Whitespace THEN rstrip(SubSeq(s, 1, Len(s) - 1)) ELSE s

strip(s) ==
    rstrip(lstrip(s))

\* str.lower() on one symbol
lower(t) ==
    CASE t = "B" -> "b"
      [] t = "A" -> "a"
      [] t = "F" -> "f"
      [] t = "X" -> "x"
      [] t = "Content-Disposition" -> "content-disposition"
      [] t = "Content-Type" -> "content-type"
      [] t = "Name" -> "name"
      [] t = "Filename" -> "filename"
      [] t = "Form-Data" -> "form-data"
      [] OTHER -> t

\* v[0].upper() + v[1:] on the symbol that opens a '-'-separated piece; the later
\* pieces inside a keyword atom are capitalised too
capitalize(t) ==
    CASE t = "b" -> "B"
      [] t = "a" -> "A"
      [] t = "f" -> "F"
      [] t = "x" -> "X"
      [] t = "content-disposition" -> "Content-Disposition"
      [] t = "content-type" -> "Content-Type"
      [] t = "name" -> "Name"
      [] t = "filename" -> "Filename"
      [] t = "form-data" -> "Form-Data"
      [] OTHER -> t

\* a keyword atom that does not open a piece: only its later pieces are capitalised
capitalize_tail(t) ==
    CASE t = "content-disposition" -> "content-Disposition"
      [] t = "content-type" -> "content-Type"
      [] t = "form-data" -> "form-Data"
      [] OTHER -> t

_normilize_key(key) ==
    [k \in 1..Len(key) |->
        IF k = 1 \/ key[k - 1] = "-" THEN capitalize(lower(key[k]))
        ELSE capitalize_tail(lower(key[k]))]

_cleanup_value(value) ==
    IF value = <<>> THEN value
    ELSE LET fch == value[1]
             lch == value[Len(value)]
         IN IF ((fch = lch) /\ (fch = DQ)) \/ (fch = SQ)
            THEN SubSeq(value, 2, Len(value) - 1)
            ELSE value

-----------------------------------------------------------------------------
(* A dict of str -> str (kv_dict, a part's headers): pairs in insertion order *)

dict_has(d, k) ==
    \E i \in 1..Len(d) : d[i].k = k

dict_get(d, k) ==
    d[CHOOSE i \in 1..Len(d) : d[i].k = k].v

dict_set(d, k, v) ==
    IF dict_has(d, k)
    THEN [i \in 1..Len(d) |-> IF d[i].k = k THEN [k |-> k, v |-> v] ELSE d[i]]
    ELSE Append(d, [k |-> k, v |-> v])

RECURSIVE dict_update(_, _)
dict_update(d, other) ==
    IF other = <<>> THEN d
    ELSE dict_update(dict_set(d, Head(other).k, Head(other).v), Tail(other))

\* the name before the first delimiter of an item (the whole item if none)
kv_name(item, k) ==
    IF k = 0 THEN item ELSE SubSeq(item, 1, k - 1)

\* the value after the first delimiter of an item ('' if none)
kv_value(item, k) ==
    IF k = 0 THEN <<>> ELSE SubSeq(item, k + 1, Len(item))

\* kv_dict[name] = value for a pair with a non-empty name, name and value
\* stripped, normalised and cleaned up as asked
kv_store(rest, name, value, normalize, cleanup) ==
    IF name # <<>>
    THEN dict_set(rest,
                  IF normalize THEN _normilize_key(strip(name)) ELSE strip(name),
                  IF cleanup THEN _cleanup_value(strip(value)) ELSE strip(value))
    ELSE rest

\* one item, its first delimiter at index k (0 if none)
kv_item(rest, item, k, normalize, cleanup) ==
    kv_store(rest, kv_name(item, k), kv_value(item, k), normalize, cleanup)

RECURSIVE _parse_key_value(_, _, _, _)
_parse_key_value(items, delimiter, normalize, cleanup) ==
    IF items = <<>> THEN <<>>
    ELSE kv_item(_parse_key_value(SubSeq(items, 1, Len(items) - 1),
                                  delimiter, normalize, cleanup),
                 items[Len(items)],
                 find(items[Len(items)], <<delimiter>>, 1),
                 normalize, cleanup)

-----------------------------------------------------------------------------
(* Field trees (QUERY, BODY, COOKIE, FILES).  A dict is a sequence of pairs  *)
(* [k, v] in insertion order; a key is an int or a str; a value is a str, an *)
(* int, None or a dict.                                                      *)

StrKey(s) ==
    [t |-> "s", s |-> s, n |-> 0]

IntKey(n) ==
    [t |-> "i", s |-> <<>>, n |-> n]

StrVal(s) ==
    [kind |-> "str", s |-> s, n |-> 0, items |-> <<>>]

IntVal(n) ==
    [kind |-> "int", s |-> <<>>, n |-> n, items |-> <<>>]

NoneVal ==
    [kind |-> "none", s |-> <<>>, n |-> 0, items |-> <<>>]

DictVal(items) ==
    [kind |-> "dict", s |-> <<>>, n |-> 0, items |-> items]

keys(d) ==
    [i \in 1..Len(d) |-> d[i].k]

IsDigit(t) ==
    \E i \in 1..Len(Digits) : Digits[i] = t

DigitVal(t) ==
    (CHOOSE i \in 1..Len(Digits) : Digits[i] = t) - 1

RECURSIVE digits_value(_)
digits_value(s) ==
    IF s = <<>> THEN 0
    ELSE 10 * digits_value(SubSeq(s, 1, Len(s) - 1)) + DigitVal(s[Len(s)])

\* a numeral without its sign
unsigned(t) ==
    IF t # <<>> /\ t[1] \in {"-", "+"} THEN Tail(t) ELSE t

\* the digits of int(s): s without surrounding whitespace and sign
int_digits(s) ==
    unsigned(strip(s))

all_digits(u) ==
    u # <<>> /\ \A i \in 1..Len(u) : IsDigit(u[i])

\* int(s) does not raise ValueError
int_ok(s) ==
    all_digits(int_digits(s))

signed_value(t) ==
    IF t[1] = "-" THEN 0 - digits_value(unsigned(t)) ELSE digits_value(unsigned(t))

int_of(s) ==
    signed_value(strip(s))

\* lines 685-690: max after an int val
next_max(max, val) ==
    IF max = -1 THEN val ELSE IF val > max THEN val ELSE max

\* int(val) of a key that converts
key_int(k) ==
    IF k.t = "i" THEN k.n ELSE int_of(k.s)

\* the for loop of _get_next_key: max after the keys of lst
RECURSIVE next_key_max(_, _)
next_key_max(lst, max) ==
    IF lst = <<>> THEN max
    ELSE IF Head(lst).t = "s" /\ ~int_ok(Head(lst).s) THEN next_key_max(Tail(lst), max)
    ELSE next_key_max(Tail(lst), next_max(max, key_int(Head(lst))))

\* lines 692-697
\* next_after without the increment of line 695
next_after_no_increment(max) ==
    IF max = -1 THEN 0 ELSE max

next_after(max) ==
    IF max = -1 THEN 0 ELSE max + 1

_get_next_key(lst) ==
    next_after(next_key_max(lst, -1))

\* _rx_keys_lookup.findall(name): the contents of the bracket pairs, left to right
RECURSIVE rx_keys_findall(_)
rx_keys_close(name, o, c) ==
    IF c = 0 THEN <<>>
    ELSE <<SubSeq(name, o + 1, c - 1)>> \o rx_keys_findall(SubSeq(name, c + 1, Len(name)))

rx_keys_open(name, o) ==
    IF o = 0 THEN <<>> ELSE rx_keys_close(name, o, find(name, <<"]">>, o + 1))

rx_keys_findall(name) ==
    rx_keys_open(name, find(name, <<"[">>, 1))

name_before(name, o) ==
    IF o = 0 THEN name ELSE SubSeq(name, 1, o - 1)

\* _rx_name_lookup.sub('\\1', name): the text before the first '['
rx_name_sub(name) ==
    name_before(name, find(name, <<"[">>, 1))

\* the key a bracket content stands for in tmp_dict (a dict)
param_key(key, tmp_dict) ==
    IF int_ok(key) THEN IntKey(int_of(key))
    ELSE IF key = <<>> THEN IntKey(_get_next_key(keys(tmp_dict)))
    ELSE StrKey(key)

\* lines 666-667 and 672: the dict the loop goes down into
param_child(items, key) ==
    IF ~dict_has(items, key) \/ dict_get(items, key).kind # "dict"
    THEN DictVal(<<>>)
    ELSE dict_get(items, key)

\* tmp_dict[key] after the rest of the loop has run on it
param_store(items, key, r) ==
    [v |-> DictVal(dict_set(items, key, r.v)), err |-> r.err]

\* the loop of _parse_param from param_keys[j] on, on the value tmp_dict; gives
\* the updated value and the exception raised ("none" if none)
RECURSIVE param_descend(_, _, _, _)
param_at(tmp, param_keys, j, value, key) ==
    IF j < Len(param_keys)
    THEN param_store(tmp.items, key,
                     param_descend(param_child(tmp.items, key), param_keys, j + 1, value))
    ELSE [v |-> DictVal(dict_set(tmp.items, key, value)), err |-> "none"]

param_descend(tmp, param_keys, j, value) ==
    IF tmp.kind # "dict"
    THEN [v |-> tmp,
          err |-> IF param_keys[j] = <<>> THEN "AttributeError" ELSE "TypeError"]
    ELSE param_at(tmp, param_keys, j, value, param_key(param_keys[j], tmp.items))

\* lines 646-647
param_base(param_dict, param_name) ==
    IF ~dict_has(param_dict, param_name)
    THEN dict_set(param_dict, param_name, DictVal(<<>>))
    ELSE param_dict

\* param_dict after the loop of lines 653-672 has run on param_dict[param_name]
param_result(d1, param_name, r) ==
    IF r.err # "none" THEN [tree |-> d1, err |-> r.err]
    ELSE [tree |-> dict_set(d1, param_name, r.v), err |-> "none"]

\* param_assign returning for a key-less name before the value is stored
param_assign_early_return(d1, param_name, param_keys, value) ==
    IF Len(param_keys) = 0
    THEN [tree |-> d1, err |-> "none"]
    ELSE param_result(d1, param_name,
                      param_descend(dict_get(d1, param_name), param_keys, 1, value))

\* lines 649-674
param_assign(d1, param_name, param_keys, value) ==
    IF Len(param_keys) = 0
    THEN [tree |-> dict_set(d1, param_name, value), err |-> "none"]
    ELSE param_result(d1, param_name,
                      param_descend(dict_get(d1, param_name), param_keys, 1, value))

\* _parse_param(name, value, param_dict): param_dict after the call and the
\* exception raised ("none" if none)
_parse_param(name, value, param_dict) ==
    IF name = None THEN [tree |-> param_dict, err |-> "TypeError"]
    ELSE param_assign(param_base(param_dict, StrKey(rx_name_sub(name))),
                      StrKey(rx_name_sub(name)), rx_keys_findall(name), value)

-----------------------------------------------------------------------------
(* The multipart decoder *)

boundary == <<"B">>

prefix == <<"-", "-">>

part_boundary == prefix \o boundary

last_boundary == part_boundary \o prefix

disposition_key == <<"Content-Disposition">>

name_key == <<"Name">>

filename_key == <<"Filename">>

ctype_key == <<"Content-Type">>

uploaded_file_prefix == "http-upload-"

\* hexdigests of md5(time, random, part_info): taken to be distinct for distinct draws
md5_hexdigest == <<"d1", "d2", "d3", "d4", "d5", "d6", "d7", "d8">>

\* the record _parse_data_block creates for a part (lines 515-521); 'data',
\* 'tmp_name' and 'handle' are absent until _handle_part_line adds them
NewPart ==
    [headers |-> <<>>, length |-> 0, name |-> None, filename |-> None, mime |-> None,
     has_data |-> FALSE, data |-> <<>>, tmp_name |-> None, handle |-> "absent"]

\* the decoder's state as one value, so that the steps are operators on it
State ==
    [parts |-> parts, last_line |-> last_line, files_counter |-> files_counter,
     body_length |-> body_length, disk |-> disk, tmp_seq |-> tmp_seq, open_files |-> open_files,
     BODY |-> BODY, FILES |-> FILES, error |-> error, closing_seen |-> closing_seen,
     dispatched |-> dispatched]

\* the temporary properties as _parse_multipart creates them (lines 415-433)
State0 ==
    [parts |-> <<>>, last_line |-> <<>>, files_counter |-> 0,
     body_length |-> 0, disk |-> <<>>, tmp_seq |-> 0, open_files |-> {},
     BODY |-> <<>>, FILES |-> <<>>, error |-> "none", closing_seen |-> FALSE,
     dispatched |-> <<>>]

raise(s, e) ==
    [s EXCEPT !.error = e]

set_part(s, idx, p) ==
    [s EXCEPT !.parts = [k \in (DOMAIN s.parts) \cup {idx} |-> IF k = idx THEN p ELSE s.parts[k]]]

del_part(s, idx) ==
    [s EXCEPT !.parts = [k \in (DOMAIN s.parts) \ {idx} |-> s.parts[k]]]

\* open(uploaded_files_dir + '/' + tmp_name, 'wb') and handle.write(line)
spool_open(d, tmp_name) ==
    [k \in (DOMAIN d) \cup {tmp_name} |-> IF k = tmp_name THEN <<>> ELSE d[k]]

spool_write(d, tmp_name, line) ==
    [d EXCEPT ![tmp_name] = @ \o line]

\* os.remove(...) inside try/except: a missing file is passed over silently
spool_remove(d, tmp_name) ==
    [k \in (DOMAIN d) \ {tmp_name} |-> d[k]]

\* file_counted counting lines, not bytes
file_counted_lines(s, line, part_idx) ==
    [s.parts[part_idx] EXCEPT !.length = @ + 1]

\* line 578: the part with the line counted
file_counted(s, line, part_idx) ==
    [s.parts[part_idx] EXCEPT !.length = @ + Len(line)]

\* lines 587-596: the spool file is opened on the part's first line, and the
\* line written
file_spool(s, line, part_idx, p1) ==
    LET fresh == p1.tmp_name = None
        tmp   == IF fresh
                 THEN <<uploaded_file_prefix, md5_hexdigest[s.tmp_seq + 1]>>
                 ELSE p1.tmp_name
    IN [set_part(s, part_idx,
                 [p1 EXCEPT !.tmp_name = tmp, !.handle = IF fresh THEN "open" ELSE @])
           EXCEPT !.tmp_seq = IF fresh THEN @ + 1 ELSE @,
                  !.open_files = IF fresh THEN @ \cup {tmp} ELSE @,
                  !.disk = spool_write(IF fresh THEN spool_open(@, tmp) ELSE @, tmp, line)]

\* file_check with the size check moved after the write
file_check_write_first(s, line, part_idx, p1) ==
    IF files_upload_on
    THEN IF p1.length > max_filesize
         THEN raise(file_spool(s, line, part_idx, p1), "MaxFileSizeError")
         ELSE file_spool(s, line, part_idx, p1)
    ELSE IF p1.length > max_filesize
    THEN raise(set_part(s, part_idx, p1), "MaxFileSizeError")
    ELSE raise(set_part(s, part_idx, p1), "FilesUploadError")

\* lines 580-600
file_check(s, line, part_idx, p1) ==
    IF p1.length > max_filesize THEN raise(set_part(s, part_idx, p1), "MaxFileSizeError")
    ELSE IF files_upload_on THEN file_spool(s, line, part_idx, p1)
    ELSE raise(set_part(s, part_idx, p1), "FilesUploadError")

\* lines 578-600: a line of a part that carries a filename
handle_file_line(s, line, part_idx) ==
    file_check(s, line, part_idx, file_counted(s, line, part_idx))

\* handle_body_line with the line appended before the limit is checked
handle_body_line_append_first(s, line, part_idx) ==
    LET len == s.body_length + Len(line)
        p1  == [s.parts[part_idx] EXCEPT !.has_data = TRUE, !.data = @ \o line]
        s1  == [set_part(s, part_idx, p1) EXCEPT !.body_length = len]
    IN IF len > max_content_length THEN raise(s1, "MaxBodySizeError") ELSE s1

\* lines 602-612: a line of a part without a filename
handle_body_line(s, line, part_idx) ==
    LET len == s.body_length + Len(line)
        p1  == [s.parts[part_idx] EXCEPT !.has_data = TRUE]
        s1  == [set_part(s, part_idx, p1) EXCEPT !.body_length = len]
    IN IF len > max_content_length THEN raise(s1, "MaxBodySizeError")
       ELSE set_part(s1, part_idx, [p1 EXCEPT !.data = @ \o line])

_handle_part_line(s, line, part_idx) ==
    IF part_idx \notin DOMAIN s.parts THEN raise(s, "KeyError")
    ELSE IF s.parts[part_idx].filename # None THEN handle_file_line(s, line, part_idx)
    ELSE handle_body_line(s, line, part_idx)

\* lines 515-526: the part (created if this is its first header line) with the
\* header merged in and its mime set
header_part(s, curr_part_idx, header) ==
    [(IF curr_part_idx \in DOMAIN s.parts THEN s.parts[curr_part_idx] ELSE NewPart)
        EXCEPT !.headers = dict_update(@, header),
               !.mime = IF dict_has(header, ctype_key) THEN dict_get(header, ctype_key)
                        ELSE @]

\* lines 536-544: filename, file counter and name of a Content-Disposition
header_disposition(s, curr_part_idx, p2, disposition) ==
    LET is_file == dict_has(disposition, filename_key)
        cnt == IF is_file THEN s.files_counter + 1 ELSE s.files_counter
        p3 == IF is_file
              THEN [p2 EXCEPT !.filename = dict_get(disposition, filename_key)]
              ELSE p2
    IN IF is_file /\ cnt > max_uploaded_files
       THEN [set_part(s, curr_part_idx, p3) EXCEPT
                !.files_counter = cnt, !.error = "MaxFilesError"]
       ELSE [set_part(s, curr_part_idx,
                      IF dict_has(disposition, name_key)
                      THEN [p3 EXCEPT !.name = dict_get(disposition, name_key)]
                      ELSE p3)
                EXCEPT !.files_counter = cnt]

\* lines 515-544 for the parsed header
header_fields(s, curr_part_idx, header) ==
    IF ~dict_has(header, disposition_key)
    THEN set_part(s, curr_part_idx, header_part(s, curr_part_idx, header))
    ELSE header_disposition(s, curr_part_idx, header_part(s, curr_part_idx, header),
                            _parse_key_value(
                                split(dict_get(header, disposition_key), <<";">>),
                                "=", TRUE, TRUE))

\* one pass of the header loop body (lines 512-544) on a line of part curr_part_idx
parse_header_line(s, line, curr_part_idx) ==
    header_fields(s, curr_part_idx, _parse_key_value(<<strip(line)>>, ":", TRUE, FALSE))

\* the inner while of lines 508-550, entered with line = lines[i]: the state and
\* the value of i when it is left
RECURSIVE header_loop(_, _, _, _)
header_next(s1, lines, i, curr_part_idx) ==
    IF s1.error # "none" \/ i + 1 > Len(lines) THEN [s |-> s1, i |-> i + 1]
    ELSE header_loop([s1 EXCEPT !.dispatched = Append(@, lines[i + 1])],
                     lines, i + 1, curr_part_idx)

header_loop(s, lines, i, curr_part_idx) ==
    IF lines[i] = CRLF THEN [s |-> s, i |-> i]
    ELSE header_next(parse_header_line(s, lines[i], curr_part_idx), lines, i, curr_part_idx)

\* lines 562-568: the line handed to _handle_part_line, without its CRLF when
\* the next line of this block is a boundary line
payload_line(lines, i) ==
    IF i + 1 <= Len(lines) /\ startswith(lines[i + 1], part_boundary)
    THEN SubSeq(lines[i], 1, Len(lines[i]) - Len(CRLF))
    ELSE lines[i]

\* the outer while of lines 501-572 from index i on
RECURSIVE line_loop(_, _, _, _, _)
after_headers(r, lines, curr_part_idx) ==
    line_loop(r.s, lines, r.i + 1, curr_part_idx, FALSE)

\* lines 506-572 for the line lines[i], s being the state with the line taken up
line_step(s, lines, i, curr_part_idx, is_new_part) ==
    IF is_new_part THEN after_headers(header_loop(s, lines, i, curr_part_idx),
                                      lines, curr_part_idx)
    ELSE IF startswith(lines[i], last_boundary) THEN [s EXCEPT !.closing_seen = TRUE]
    ELSE line_loop(IF startswith(lines[i], part_boundary) THEN s
                   ELSE _handle_part_line(s, payload_line(lines, i), curr_part_idx),
                   lines, i + 1,
                   IF startswith(lines[i], part_boundary) THEN curr_part_idx + 1
                   ELSE curr_part_idx,
                   startswith(lines[i], part_boundary))

line_loop(s0, lines, i, curr_part_idx, is_new_part) ==
    IF s0.error # "none" \/ i > Len(lines) THEN s0
    ELSE line_step([s0 EXCEPT !.dispatched = Append(@, lines[i])],
                   lines, i, curr_part_idx, is_new_part)

\* lines 494-496
terminated(lines) ==
    [k \in 1..Len(lines) |-> lines[k] \o CRLF]

\* lines 485-572 for data (with _last_line prepended) and its pieces
data_lines(s, data, lines, curr_part_idx) ==
    IF Len(lines) = 1
    THEN _handle_part_line([s EXCEPT !.last_line = <<>>, !.dispatched = Append(@, data)],
                           data, curr_part_idx)
    ELSE line_loop(IF endswith(data, CRLF) THEN s
                   ELSE [s EXCEPT !.last_line = lines[Len(lines)]],
                   terminated(IF endswith(data, CRLF) THEN lines
                              ELSE SubSeq(lines, 1, Len(lines) - 1)),
                   1, curr_part_idx, FALSE)

_parse_data_block(s, data) ==
    data_lines(s, s.last_line \o data, split(s.last_line \o data, CRLF),
               Cardinality(DOMAIN s.parts))

\* list(self._parts.keys()): the part indexes in insertion order, which is
\* ascending (curr_part_idx only grows while a request is decoded)
RECURSIVE sorted_keys(_)
sorted_keys(S) ==
    IF S = {} THEN <<>>
    ELSE LET m == CHOOSE x \in S : \A y \in S : x <= y IN <<m>> \o sorted_keys(S \ {m})

headers_value(h) ==
    DictVal([i \in 1..Len(h) |-> [k |-> StrKey(h[i].k), v |-> StrVal(h[i].v)]])

opt_str(x) ==
    IF x = None THEN NoneVal ELSE StrVal(x)

\* the part dict as stored in FILES: 'name' and 'handle' deleted (lines 722, 725)
file_record(part) ==
    DictVal(<<[k |-> StrKey(<<"headers">>), v |-> headers_value(part.headers)],
              [k |-> StrKey(<<"length">>), v |-> IntVal(part.length)],
              [k |-> StrKey(<<"filename">>), v |-> opt_str(part.filename)],
              [k |-> StrKey(<<"mime">>), v |-> opt_str(part.mime)]>>
            \o (IF part.has_data
                THEN <<[k |-> StrKey(<<"data">>), v |-> StrVal(part.data)]>> ELSE <<>>)
            \o (IF part.tmp_name # None
                THEN <<[k |-> StrKey(<<"tmp_name">>), v |-> StrVal(part.tmp_name)]>>
                ELSE <<>>))

\* lines 728-730: the record is stored in FILES and the part deleted
files_store(s, key, p2, r) ==
    IF r.err # "none"
    THEN [set_part(s, key, [p2 EXCEPT !.name = None]) EXCEPT
             !.FILES = r.tree, !.error = r.err]
    ELSE [del_part(s, key) EXCEPT !.FILES = r.tree]

\* lines 721-730 for a part that is kept
files_keep(s, key, p1) ==
    IF p1.handle = "absent" THEN raise(set_part(s, key, [p1 EXCEPT !.name = None]), "KeyError")
    ELSE files_store([s EXCEPT !.open_files = @ \ {p1.tmp_name}], key,
                     [p1 EXCEPT !.handle = "closed"],
                     _parse_param(p1.name, file_record([p1 EXCEPT !.handle = "closed"]),
                                  s.FILES))

\* the body of the for loop of _parse_to_files for one key
files_step(s, key) ==
    LET part == s.parts[key] IN
    IF part.filename = None THEN s
    ELSE IF part.filename = <<>> /\ part.length <= 0
    THEN IF part.handle = "absent" THEN raise(s, "KeyError")
         ELSE [del_part(s, key) EXCEPT !.disk = spool_remove(@, part.tmp_name),
                                       !.open_files = @ \ {part.tmp_name}]
    ELSE IF part.filename = <<>> /\ part.tmp_name = None THEN raise(s, "KeyError")
    ELSE files_keep(s, key,
                    IF part.filename = <<>> THEN [part EXCEPT !.filename = part.tmp_name]
                    ELSE part)

RECURSIVE files_loop(_, _)
files_loop(s, ks) ==
    IF ks = <<>> \/ s.error # "none" THEN s
    ELSE files_loop(files_step(s, Head(ks)), Tail(ks))

_parse_to_files(s) ==
    files_loop(s, sorted_keys(DOMAIN s.parts))

\* BODY after _parse_param, and the part deleted (line 743)
body_store(s, key, r) ==
    IF r.err # "none" THEN [s EXCEPT !.BODY = r.tree, !.error = r.err]
    ELSE [del_part(s, key) EXCEPT !.BODY = r.tree]

\* the body of the for loop of _parse_to_body for one key
body_step(s, key) ==
    IF s.parts[key].filename # None THEN s
    ELSE IF ~s.parts[key].has_data THEN raise(s, "KeyError")
    ELSE body_store(s, key,
                    _parse_param(s.parts[key].name, StrVal(s.parts[key].data), s.BODY))

RECURSIVE body_loop(_, _)
body_loop(s, ks) ==
    IF ks = <<>> \/ s.error # "none" THEN s
    ELSE body_loop(body_step(s, Head(ks)), Tail(ks))

_parse_to_body(s) ==
    body_loop(s, sorted_keys(DOMAIN s.parts))

\* line 454, reached when line 453 raised nothing
body_pass(s1) ==
    IF s1.error # "none" THEN s1 ELSE _parse_to_body(s1)

\* lines 453-454: the two finalisation passes; an exception in the first skips the second
finalize(s) ==
    body_pass(_parse_to_files(s))

\* lines 449-454 when the block read is the last one: an exception raised by
\* _parse_data_block leaves the finalisation passes out
finalized(s) ==
    IF s.error # "none" THEN s ELSE finalize(s)

-----------------------------------------------------------------------------
(* Request bodies *)

\* most payload bytes on one line of a part
MaxPayload == 1

\* the numbers of parts a body may have
PartCounts == {1, 2}

RECURSIVE repeat(_, _)
repeat(sym, n) ==
    IF n = 0 THEN <<>> ELSE <<sym>> \o repeat(sym, n - 1)

\* payload bytes of a part: one line of 0..MaxPayload bytes, or two lines
Payloads ==
    {repeat("x", n) : n \in 0..MaxPayload} \cup {<<"x">> \o CRLF \o <<"x">>}

\* "field": no filename parameter; "file": filename="f"; "nofile": filename=""
Kinds == {"field", "file", "nofile"}

PartNames == <<(<<"a">>), (<<"b">>), (<<"c">>), (<<"d">>)>>

\* has_payload = FALSE: the part ends with its header block (no payload, and no
\* line terminator of its own before the next boundary line)
PartSpecs ==
    [kind : Kinds, has_payload : {TRUE}, payload : Payloads]
        \cup [kind : Kinds, has_payload : {FALSE}, payload : {<<>>}]

\* the parts after the first carry the one-byte payload
TailSpecs ==
    [kind : Kinds, has_payload : {TRUE}, payload : {<<"x">>}]

PartSeqs ==
    UNION {{specs \in [1..n -> PartSpecs] : \A k \in 2..n : specs[k] \in TailSpecs} :
              n \in PartCounts}

disposition_line(kind, nm) ==
    <<"Content-Disposition", ":", SP, "form-data", ";", SP, "name", "=", DQ>> \o nm \o <<DQ>>
    \o (CASE kind = "field"  -> <<>>
          [] kind = "file"   -> <<";", SP, "filename", "=", DQ, "f", DQ>>
          [] kind = "nofile" -> <<";", SP, "filename", "=", DQ, DQ>>)
    \o CRLF

part_text(spec, nm) ==
    part_boundary \o CRLF \o disposition_line(spec.kind, nm) \o CRLF
    \o (IF spec.has_payload THEN spec.payload \o CRLF ELSE <<>>)

RECURSIVE parts_text(_, _)
parts_text(specs, k) ==
    IF k > Len(specs) THEN <<>>
    ELSE part_text(specs[k], PartNames[k]) \o parts_text(specs, k + 1)

\* bytes before the first boundary line (preamble) or after the closing one (epilogue)
Noise == {<<<<>>, <<>>>>, <<<<"x">> \o CRLF, <<>>>>, <<<<>>, <<"x">> \o CRLF>>}

make_body(preamble, specs, epilogue) ==
    preamble \o parts_text(specs, 1) \o last_boundary \o CRLF \o epilogue

Bodies ==
    {make_body(ns[1], specs, ns[2]) : ns \in Noise, specs \in PartSeqs}

\* a limit no body of the model reaches, and one that a second byte exceeds
Roomy == 64

Tight == 1

\* the permissive configuration, and the ones that tighten it
Configs ==
    LET MaxParts == CHOOSE n \in PartCounts : \A m \in PartCounts : m <= n
        dflt == [files_upload_on |-> TRUE, max_uploaded_files |-> MaxParts,
                 max_filesize |-> Roomy, max_content_length |-> Roomy]
    IN {dflt,
        [dflt EXCEPT !.max_uploaded_files = MaxParts - 1],
        [dflt EXCEPT !.max_filesize = Tight],
        [dflt EXCEPT !.max_content_length = Tight],
        [dflt EXCEPT !.files_upload_on = FALSE],
        [dflt EXCEPT !.files_upload_on = FALSE, !.max_filesize = Tight]}

-----------------------------------------------------------------------------
(* _parse_multipart *)

\* buff_len (lines 405, 411-412)
buff_len ==
    IF read_block_size <= 0 THEN Len(body) ELSE read_block_size

Init ==
    /\ body \in Bodies
    /\ \E cfg \in Configs :
          /\ files_upload_on = cfg.files_upload_on
          /\ max_uploaded_files = cfg.max_uploaded_files
          /\ max_filesize = cfg.max_filesize
          /\ max_content_length = cfg.max_content_length
    /\ read_block_size \in 0..(Len(body) + 1)
    /\ parts = State0.parts
    /\ last_line = State0.last_line
    /\ files_counter = State0.files_counter
    /\ body_length = State0.body_length
    /\ disk = State0.disk
    /\ tmp_seq = State0.tmp_seq
    /\ open_files = State0.open_files
    /\ BODY = State0.BODY
    /\ FILES = State0.FILES
    /\ error = State0.error
    /\ closing_seen = State0.closing_seen
    /\ dispatched = State0.dispatched
    /\ remaining = Len(body)
    /\ size = buff_len
    /\ pc = "read"
    /\ p_name = <<>>
    /\ p_value = <<>>
    /\ p_tree = <<>>
    /\ p_prev = <<>>
    /\ p_err = "none"
    /\ p_calls = 0
    /\ p_pc = "idle"
    /\ content_type = <<"multipart/form-data", ";", " ", "boundary", "=">> \o boundary
    /\ query_string = None
    /\ QUERY = <<>>
    /\ body_reads = 0
    /\ flat = [given |-> FALSE, d |-> <<>>]
    /\ g_storage = "none"
    /\ g_key = None
    /\ g_default = NoneVal
    /\ g_result = NoneVal
    /\ fs = EmptyFs
    /\ m_file = NoneVal
    /\ m_dest = <<>>
    /\ m_overwrite = FALSE
    /\ m_result = None
    /\ m_err = "none"
    /\ m_prev = EmptyFs
    /\ m_calls = 0

install(s) ==
    /\ parts' = s.parts
    /\ last_line' = s.last_line
    /\ files_counter' = s.files_counter
    /\ body_length' = s.body_length
    /\ disk' = s.disk
    /\ tmp_seq' = s.tmp_seq
    /\ open_files' = s.open_files
    /\ BODY' = s.BODY
    /\ FILES' = s.FILES
    /\ error' = s.error
    /\ closing_seen' = s.closing_seen
    /\ dispatched' = s.dispatched

\* instream.read(n) at the stream position Len(body) - remaining
read(n) ==
    SubSeq(body, Len(body) - remaining + 1, Len(body) - remaining + n)

\* ReadBlock without the clamp of lines 445-446: every read asks for buff_len
\* bytes, the input source returns what is left
ReadBlock_unclamped ==
    /\ pc = "read"
    /\ remaining > 0
    /\ \E sz \in {size} :
       \E s \in {_parse_data_block(State, read(IF sz > remaining THEN remaining ELSE sz))} :
          /\ size' = sz
          /\ install(s)
          /\ remaining' = IF s.error # "none" THEN remaining ELSE remaining - sz
          /\ pc' = IF s.error # "none" THEN "raised" ELSE "read"
    /\ UNCHANGED <<body, files_upload_on, max_uploaded_files, max_filesize,
                   max_content_length, read_block_size>>
    /\ UNCHANGED ppvars
    /\ UNCHANGED uvars
    /\ UNCHANGED gvars
    /\ UNCHANGED mvars

\* ReadBlock with the finalisation passes of lines 453-454 run inside the loop
ReadBlock_finalizing ==
    /\ pc = "read"
    /\ remaining > 0
    /\ \E sz \in {IF buff_len > remaining THEN remaining ELSE size} :
       \E s \in {finalized(_parse_data_block(State, read(sz)))} :
          /\ size' = sz
          /\ install(s)
          /\ remaining' = IF s.error # "none" THEN remaining ELSE remaining - sz
          /\ pc' = IF s.error # "none" THEN "raised" ELSE "read"
    /\ UNCHANGED <<body, files_upload_on, max_uploaded_files, max_filesize,
                   max_content_length, read_block_size>>
    /\ UNCHANGED ppvars
    /\ UNCHANGED uvars
    /\ UNCHANGED gvars
    /\ UNCHANGED mvars

\* one iteration of the while loop of lines 441-451
ReadBlock ==
    /\ pc = "read"
    /\ remaining > 0
    /\ \E sz \in {IF buff_len > remaining THEN remaining ELSE size} :
       \E s \in {_parse_data_block(State, read(sz))} :
          /\ size' = sz
          /\ install(s)
          /\ remaining' = IF s.error # "none" THEN remaining ELSE remaining - sz
          /\ pc' = IF s.error # "none" THEN "raised" ELSE "read"
    /\ UNCHANGED <<body, files_upload_on, max_uploaded_files, max_filesize,
                   max_content_length, read_block_size>>
    /\ UNCHANGED ppvars
    /\ UNCHANGED uvars
    /\ UNCHANGED gvars
    /\ UNCHANGED mvars

\* lines 442-443 and 453-460: the loop is left and the parts are finalised
Finish ==
    /\ pc = "read"
    /\ remaining <= 0
    /\ \E s \in {finalize(State)} :
          /\ install(s)
          /\ pc' = IF s.error # "none" THEN "raised" ELSE "done"
    /\ UNCHANGED <<body, files_upload_on, max_uploaded_files, max_filesize,
                   max_content_length, read_block_size, remaining, size>>
    /\ UNCHANGED ppvars
    /\ UNCHANGED uvars
    /\ UNCHANGED gvars
    /\ UNCHANGED mvars

Next ==
    \/ ReadBlock
    \/ Finish

Spec ==
    Init /\ [][Next]_vars

\* the request object before _parse_body has looked at the body: no body bytes,
\* the default limits
InitLive ==
    /\ body = <<>>
    /\ files_upload_on = TRUE
    /\ max_uploaded_files = Roomy
    /\ max_filesize = Roomy
    /\ max_content_length = Roomy
    /\ read_block_size = 0
    /\ remaining = 0
    /\ size = 0
    /\ pc = "enter"
    /\ parts = State0.parts
    /\ last_line = State0.last_line
    /\ files_counter = State0.files_counter
    /\ body_length = State0.body_length
    /\ disk = State0.disk
    /\ tmp_seq = State0.tmp_seq
    /\ open_files = State0.open_files
    /\ BODY = State0.BODY
    /\ FILES = State0.FILES
    /\ error = State0.error
    /\ closing_seen = State0.closing_seen
    /\ dispatched = State0.dispatched
    /\ content_type = <<"multipart/form-data", ";", " ", "boundary", "=">> \o boundary
    /\ p_name = <<>>
    /\ p_value = <<>>
    /\ p_tree = <<>>
    /\ p_prev = <<>>
    /\ p_err = "none"
    /\ p_calls = 0
    /\ p_pc = "idle"
    /\ query_string = None
    /\ QUERY = <<>>
    /\ body_reads = 0
    /\ flat = [given |-> FALSE, d |-> <<>>]
    /\ g_storage = "none"
    /\ g_key = None
    /\ g_default = NoneVal
    /\ g_result = NoneVal
    /\ fs = EmptyFs
    /\ m_file = NoneVal
    /\ m_dest = <<>>
    /\ m_overwrite = FALSE
    /\ m_result = None
    /\ m_err = "none"
    /\ m_prev = EmptyFs
    /\ m_calls = 0

\* _parse_multipart up to its loop (lines 404-439), for a request and a
\* configuration of Init
EnterMultipart ==
    /\ pc = "enter"
    /\ body' \in Bodies
    /\ \E cfg \in Configs :
          /\ files_upload_on' = cfg.files_upload_on
          /\ max_uploaded_files' = cfg.max_uploaded_files
          /\ max_filesize' = cfg.max_filesize
          /\ max_content_length' = cfg.max_content_length
    /\ read_block_size' \in 0..(Len(body') + 1)
    /\ remaining' = Len(body')
    /\ size' = IF read_block_size' <= 0 THEN Len(body') ELSE read_block_size'
    /\ pc' = "read"
    /\ UNCHANGED <<parts, last_line, files_counter, body_length, disk, tmp_seq, open_files, BODY, FILES,
                   error, closing_seen, dispatched>>
    /\ UNCHANGED ppvars
    /\ UNCHANGED uvars
    /\ UNCHANGED gvars
    /\ UNCHANGED mvars

NextLive ==
    \/ EnterMultipart
    \/ ReadBlock
    \/ Finish

\* a step of the thread that runs _parse_multipart, whatever it does to the
\* decoder: the steps of NextLive are the steps of Running that change a variable
Running ==
    /\ pc \in {"enter", "read"}
    /\ pc' \in {"read", "done", "raised"}

\* WF_vars(Running), with ENABLED <<Running>>_vars written as the state
\* predicate it amounts to: a step is possible while pc is "enter" or "read"
Fair ==
    []<>(pc \notin {"enter", "read"}) \/ []<><<Running>>_vars

\* the loop of lines 441-451 and the two passes after it run in one thread on
\* an input source whose read returns: the thread does not stop before the
\* end of _parse_multipart
SpecLive ==
    InitLive /\ [][NextLive]_vars /\ Fair

-----------------------------------------------------------------------------
(* _parse_param called in sequence on one dict, as _parse_query_params,      *)
(* _parse_cookie, _parse_to_body and _parse_to_files call it                  *)

\* most calls on one dict
MaxCalls == 3

ParamNames ==
    {<<>>, <<"a">>, <<"b">>, <<"a", "b">>,
     <<"a", "[", "]">>, <<"a", "[", "x", "]">>, <<"a", "[", "1", "]">>,
     <<"a", "[", "]", "[", "x", "]">>, <<"a", "[", "x", "]", "[", "y", "]">>,
     <<"a", "[", "-", "1", "]">>, <<"a", "[", "-", "3", "]">>,
     <<"a", "[">>, <<"a", "]">>}

ParamValues == {StrVal(<<"v">>), StrVal(<<"w">>)}

InitParam ==
    /\ body = <<>>
    /\ files_upload_on = TRUE
    /\ max_uploaded_files = 0
    /\ max_filesize = 0
    /\ max_content_length = 0
    /\ read_block_size = 0
    /\ parts = State0.parts
    /\ last_line = State0.last_line
    /\ files_counter = State0.files_counter
    /\ body_length = State0.body_length
    /\ disk = State0.disk
    /\ tmp_seq = State0.tmp_seq
    /\ open_files = State0.open_files
    /\ BODY = State0.BODY
    /\ FILES = State0.FILES
    /\ error = State0.error
    /\ closing_seen = State0.closing_seen
    /\ dispatched = State0.dispatched
    /\ remaining = 0
    /\ size = 0
    /\ pc = "idle"
    /\ p_name = <<>>
    /\ p_value = StrVal(<<>>)
    /\ p_tree = <<>>
    /\ p_prev = <<>>
    /\ p_err = "none"
    /\ p_calls = 0
    /\ p_pc = "call"
    /\ content_type = None
    /\ query_string = None
    /\ QUERY = <<>>
    /\ body_reads = 0
    /\ flat = [given |-> FALSE, d |-> <<>>]
    /\ g_storage = "none"
    /\ g_key = None
    /\ g_default = NoneVal
    /\ g_result = NoneVal
    /\ fs = EmptyFs
    /\ m_file = NoneVal
    /\ m_dest = <<>>
    /\ m_overwrite = FALSE
    /\ m_result = None
    /\ m_err = "none"
    /\ m_prev = EmptyFs
    /\ m_calls = 0

\* one call _parse_param(name, value, p_tree); an exception ends the sequence
ParseParam ==
    /\ p_pc \in {"call", "ret"}
    /\ p_err = "none"
    /\ p_calls < MaxCalls
    /\ \E name \in ParamNames, value \in ParamValues :
       \E r \in {_parse_param(name, value, p_tree)} :
          /\ p_name' = name
          /\ p_value' = value
          /\ p_prev' = p_tree
          /\ p_tree' = r.tree
          /\ p_err' = r.err
    /\ p_calls' = p_calls + 1
    /\ p_pc' = "ret"
    /\ UNCHANGED mpvars
    /\ UNCHANGED uvars
    /\ UNCHANGED gvars
    /\ UNCHANGED mvars

NextParam ==
    ParseParam

SpecParam ==
    InitParam /\ [][NextParam]_vars

-----------------------------------------------------------------------------
(* The url-encoded decoder: the non-multipart branch of _parse_body,         *)
(* _parse_query and _parse_query_params                                      *)

HexDigits ==
    {"0", "1", "2", "3", "4", "5", "6", "7", "8", "9",
     "A", "B", "C", "D", "E", "F", "a", "b", "c", "d", "e", "f"}

hex_upper(c) ==
    CASE c = "a" -> "A"
      [] c = "b" -> "B"
      [] c = "c" -> "C"
      [] c = "d" -> "D"
      [] c = "e" -> "E"
      [] c = "f" -> "F"
      [] OTHER -> c

\* the character a percent code stands for; the inputs of the model use these
\* codes only
percent_char(code) ==
    CASE code = <<"2", "0">> -> " "
      [] code = <<"2", "5">> -> "%"
      [] code = <<"2", "6">> -> "&"
      [] code = <<"2", "B">> -> "+"
      [] code = <<"3", "D">> -> "="
      [] code = <<"5", "B">> -> "["
      [] code = <<"5", "D">> -> "]"

\* urllib.parse.unquote: %XX with two hex digits is replaced, any other % is kept
RECURSIVE unquote(_)
unquote(s) ==
    IF s = <<>> THEN <<>>
    ELSE IF Head(s) = "%" /\ Len(s) >= 3 /\ s[2] \in HexDigits /\ s[3] \in HexDigits
    THEN <<percent_char(<<hex_upper(s[2]), hex_upper(s[3])>>)>> \o unquote(SubSeq(s, 4, Len(s)))
    ELSE <<Head(s)>> \o unquote(Tail(s))

plus_to_space(s) ==
    [i \in 1..Len(s) |-> IF s[i] = "+" THEN SP ELSE s[i]]

\* unquote_plus that leaves '+' alone
unquote_plus_keeps_plus(s) ==
    unquote(s)

\* urllib.parse.unquote_plus (line 619)
unquote_plus(s) ==
    unquote(plus_to_space(s))

\* characters urllib.parse.quote never escapes
AlwaysSafe ==
    {"a", "b", "f", "o", "r", "v", "w", "x", "y", "z",
     "0", "1", "2", "3", "4", "5", "6", "7", "8", "9", "_", ".", "-", "~"}

percent_code(c) ==
    CASE c = " " -> <<"2", "0">>
      [] c = "%" -> <<"2", "5">>
      [] c = "&" -> <<"2", "6">>
      [] c = "+" -> <<"2", "B">>
      [] c = "=" -> <<"3", "D">>
      [] c = "[" -> <<"5", "B">>
      [] c = "]" -> <<"5", "D">>

\* urllib.parse.quote_plus, the encoder unquote_plus inverts
RECURSIVE quote_plus(_)
quote_plus(s) ==
    IF s = <<>> THEN <<>>
    ELSE (IF Head(s) = SP THEN <<"+">>
          ELSE IF Head(s) \in AlwaysSafe THEN <<Head(s)>>
          ELSE <<"%">> \o percent_code(Head(s))) \o quote_plus(Tail(s))

\* urllib.parse.urlencode of a flat dict of str to str
RECURSIVE urlencode(_)
urlencode(d) ==
    IF d = <<>> THEN <<>>
    ELSE quote_plus(d[1].k.s) \o <<"=">> \o quote_plus(d[1].v.s)
         \o (IF Len(d) = 1 THEN <<>> ELSE <<"&">> \o urlencode(Tail(d)))

\* bytes.decode('utf-8') of lines 300-304; xFF is a byte that is not UTF-8
_decode_value(value) ==
    IF \E i \in 1..Len(value) : value[i] = "xFF"
    THEN [v |-> value, err |-> "UnicodeDecodeError"]
    ELSE [v |-> value, err |-> "none"]

\* lines 630-636: one pair
query_pair(kv, param_dict) ==
    IF Len(kv) # 2 THEN [tree |-> param_dict, err |-> "ValueError"]
    ELSE _parse_param(unquote_plus(kv[1]), StrVal(unquote_plus(kv[2])), param_dict)

RECURSIVE query_loop(_, _, _)
query_next(params, i, r) ==
    IF r.err # "none" THEN r ELSE query_loop(params, i + 1, r.tree)

\* lines 629-636
query_loop(params, i, param_dict) ==
    IF i > Len(params) THEN [tree |-> param_dict, err |-> "none"]
    ELSE query_next(params, i, query_pair(split(params[i], <<"=">>), param_dict))

\* _parse_query_params that stops after the first pair
_parse_query_params_first_pair(params) ==
    IF params = <<>> \/ params = None THEN [tree |-> <<>>, err |-> "none"]
    ELSE query_loop(<<split(params, <<"&">>)[1]>>, 1, <<>>)

\* _parse_query_params(params): the dict built and the exception raised
\* ("none" if none); on an exception tree is the local dict that is dropped
_parse_query_params(params) ==
    IF params = <<>> \/ params = None THEN [tree |-> <<>>, err |-> "none"]
    ELSE query_loop(split(params, <<"&">>), 1, <<>>)

lower_str(s) ==
    [i \in 1..Len(s) |-> lower(s[i])]

\* lines 366-374: a piece of the content type names a multipart type
is_multipart(body_type) ==
    \E i \in 1..Len(split(body_type, <<";">>)) :
        lower_str(strip(split(body_type, <<";">>)[i])) \in
            {<<"multipart/form-data">>, <<"multipart/mixed">>}

\* longest key of an encoded mapping
MaxKeyLen == 2

Seqs(S, n) ==
    UNION {[1..k -> S] : k \in 0..n}

FlatSymbols ==
    {"a", "2", " ", "=", "&", "%", "+"}

FlatKeys ==
    Seqs(FlatSymbols, MaxKeyLen)

FlatValues ==
    Seqs(FlatSymbols, 1) \cup {<<"%", "2", "5">>}

\* dicts of str to str whose keys have no brackets
FlatMappings ==
    {<<>>}
    \cup {<<[k |-> StrKey(k), v |-> StrVal(v)]>> : k \in FlatKeys, v \in FlatValues}
    \cup {<<[k |-> StrKey(kk[1]), v |-> StrVal(vv[1])], [k |-> StrKey(kk[2]), v |-> StrVal(vv[2])]>> :
             kk \in {p \in Seqs(FlatSymbols, 1) \X Seqs(FlatSymbols, 1) : p[1] # p[2]},
             vv \in {<<"a">>, <<"&">>} \X {<<"a">>, <<"&">>}}

\* the example of the class docstring (lines 107-123)
DocExample ==
    <<"f", "o", "o", "[", "]", "[", "b", "a", "r", "]", "=", "1", "&", "f", "o", "o", "[", "]", "[", "b", "a", "z", "]", "=", "2", "&", "f", "o", "o", "[", "x", "y", "z", "]", "=", "7", "7", "7">>

\* bodies that are not the encoding of a flat mapping
HandBodies ==
    {<<"a">>,
     <<"a", "=", "v", "&", "b">>,
     <<"a", "=", "v", "&", "b", "=", "w", "=", "x">>,
     <<"a", "=", "v", "&">>,
     <<"a", "=", "v", "&", "a", "[", "x", "]", "=", "w">>,
     <<"a", "%", "3", "D", "=", "v", "%", "2", "6">>,
     <<"a", "%", "3", "d", "=", "+", "v">>,
     <<"a", "=", "xFF">>,
     <<"a", "[", "]", "=", "v", "&", "a", "[", "]", "=", "w">>,
     <<"a", "=", "v", "&", "a", "=", "w">>,
     <<"a", "=", "%">>,
     <<"a", "=", "%", "2", "&", "b", "=", "%", "z", "z">>}
    \cup {DocExample}

QueryStrings ==
    {None, <<>>,
     <<"a", "=", "v">>,
     <<"a", "=", "v", "&", "b">>,
     <<"a", "[", "]", "=", "v", "&", "a", "[", "]", "=", "w">>}

ContentTypes ==
    {None, <<"application/x-www-form-urlencoded">>, <<"text/plain">>,
     <<"application/x-www-form-urlencoded", ";", " ", "charset=utf-8">>}

\* decoder state the url-encoded branch never touches
idlevars == <<files_upload_on, max_uploaded_files, max_filesize, read_block_size, parts,
              last_line, files_counter, body_length, disk, tmp_seq, open_files, FILES, remaining, size,
              closing_seen, dispatched>>

InitUrl ==
    /\ \/ \E d \in FlatMappings :
             /\ flat = [given |-> TRUE, d |-> d]
             /\ body = urlencode(d)
       \/ /\ flat = [given |-> FALSE, d |-> <<>>]
          /\ body \in HandBodies
    /\ content_type \in ContentTypes
    /\ query_string \in QueryStrings
    /\ max_content_length \in {Tight, Roomy}
    /\ files_upload_on = TRUE
    /\ max_uploaded_files = Roomy
    /\ max_filesize = Roomy
    /\ read_block_size = 0
    /\ parts = State0.parts
    /\ last_line = State0.last_line
    /\ files_counter = State0.files_counter
    /\ body_length = State0.body_length
    /\ disk = State0.disk
    /\ tmp_seq = State0.tmp_seq
    /\ open_files = State0.open_files
    /\ BODY = State0.BODY
    /\ FILES = State0.FILES
    /\ error = State0.error
    /\ closing_seen = State0.closing_seen
    /\ dispatched = State0.dispatched
    /\ remaining = 0
    /\ size = 0
    /\ QUERY = <<>>
    /\ body_reads = 0
    /\ pc = "check"
    /\ p_name = <<>>
    /\ p_value = <<>>
    /\ p_tree = <<>>
    /\ p_prev = <<>>
    /\ p_err = "none"
    /\ p_calls = 0
    /\ p_pc = "idle"
    /\ g_storage = "none"
    /\ g_key = None
    /\ g_default = NoneVal
    /\ g_result = NoneVal
    /\ fs = EmptyFs
    /\ m_file = NoneVal
    /\ m_dest = <<>>
    /\ m_overwrite = FALSE
    /\ m_result = None
    /\ m_err = "none"
    /\ m_prev = EmptyFs
    /\ m_calls = 0

\* BodyCheck without the limit of lines 399-400
BodyCheck_no_limit ==
    /\ pc = "check"
    /\ pc' = IF Len(body) = 0 THEN "query"
             ELSE IF content_type = None \/ content_type = <<>> THEN "query"
             ELSE IF is_multipart(content_type) THEN "multipart"
             ELSE "fetch"
    /\ UNCHANGED <<body, max_content_length, BODY, error>>
    /\ UNCHANGED <<idlevars, ppvars, uvars, gvars, mvars>>

\* _parse_body up to the read of the non-multipart branch (lines 352-400)
BodyCheck ==
    /\ pc = "check"
    /\ pc' = IF Len(body) = 0 THEN "query"
             ELSE IF content_type = None \/ content_type = <<>> THEN "query"
             ELSE IF is_multipart(content_type) THEN "multipart"
             ELSE IF Len(body) > max_content_length THEN "raised"
             ELSE "fetch"
    /\ error' = IF pc' = "raised" THEN "MaxBodySizeError" ELSE error
    /\ UNCHANGED <<body, max_content_length, BODY>>
    /\ UNCHANGED <<idlevars, ppvars, uvars, gvars, mvars>>

\* BodyRead storing the dict built so far when a pair raises
BodyRead_keeps_partial ==
    /\ pc = "fetch"
    /\ body_reads' = body_reads + 1
    /\ \E d \in {_decode_value(SubSeq(body, 1, Len(body)))} :
       \E r \in {IF d.err # "none" THEN [tree |-> <<>>, err |-> d.err]
                 ELSE _parse_query_params(d.v)} :
          /\ BODY' = r.tree
          /\ error' = r.err
          /\ pc' = IF r.err = "none" THEN "query" ELSE "raised"
    /\ UNCHANGED <<body, max_content_length, content_type, query_string, QUERY, flat>>
    /\ UNCHANGED <<idlevars, ppvars, gvars, mvars>>

\* BodyRead asking the input source for one byte less than the declared length
BodyRead_short ==
    /\ pc = "fetch"
    /\ body_reads' = body_reads + 1
    /\ \E d \in {_decode_value(SubSeq(body, 1, Len(body) - 1))} :
       \E r \in {IF d.err # "none" THEN [tree |-> <<>>, err |-> d.err]
                 ELSE _parse_query_params(d.v)} :
          /\ BODY' = IF r.err = "none" THEN r.tree ELSE BODY
          /\ error' = r.err
          /\ pc' = IF r.err = "none" THEN "query" ELSE "raised"
    /\ UNCHANGED <<body, max_content_length, content_type, query_string, QUERY, flat>>
    /\ UNCHANGED <<idlevars, ppvars, gvars, mvars>>

\* line 402: read, decode, _parse_query_params, assignment to self.BODY
BodyRead ==
    /\ pc = "fetch"
    /\ body_reads' = body_reads + 1
    /\ \E d \in {_decode_value(SubSeq(body, 1, Len(body)))} :
       \E r \in {IF d.err # "none" THEN [tree |-> <<>>, err |-> d.err]
                 ELSE _parse_query_params(d.v)} :
          /\ BODY' = IF r.err = "none" THEN r.tree ELSE BODY
          /\ error' = r.err
          /\ pc' = IF r.err = "none" THEN "query" ELSE "raised"
    /\ UNCHANGED <<body, max_content_length, content_type, query_string, QUERY, flat>>
    /\ UNCHANGED <<idlevars, ppvars, gvars, mvars>>

\* _parse_query (lines 745-751)
ParseQuery ==
    /\ pc = "query"
    /\ \E r \in {IF query_string = None THEN [tree |-> QUERY, err |-> "none"]
                 ELSE _parse_query_params(query_string)} :
          /\ QUERY' = IF r.err = "none" THEN r.tree ELSE QUERY
          /\ error' = r.err
          /\ pc' = IF r.err = "none" THEN "done" ELSE "raised"
    /\ UNCHANGED <<body, max_content_length, BODY, content_type, query_string, body_reads, flat>>
    /\ UNCHANGED <<idlevars, ppvars, gvars, mvars>>

NextUrl ==
    \/ BodyCheck
    \/ BodyRead
    \/ ParseQuery

SpecUrl ==
    InitUrl /\ [][NextUrl]_vars

-----------------------------------------------------------------------------
(* The accessors: getenv on the storages of a parsed request *)

\* self.HEADERS as _parse_headers leaves it for an environ without HTTP_* entries
HEADERS ==
    <<[k |-> StrKey(<<"Content-Length">>), v |-> IntVal(Len(body))]>>
    \o (IF content_type = None \/ content_type = <<>> THEN <<>>
        ELSE <<[k |-> StrKey(<<"Content-Type">>), v |-> StrVal(content_type)]>>)

\* getattr(self, storage)
storage_of(storage) ==
    CASE storage = "HEADERS" -> HEADERS
      [] storage = "BODY" -> BODY
      [] storage = "QUERY" -> QUERY

\* lines 819-826
getenv_lookup(env, key, default_value) ==
    IF dict_has(env, StrKey(key)) THEN dict_get(env, StrKey(key)) ELSE default_value

\* getenv(storage, key, default_value) on the storage dict env
getenv(env, storage, key, default_value) ==
    IF key = None THEN default_value
    ELSE IF env = <<>> \/ ~dict_has(env, StrKey(key)) THEN default_value
    ELSE getenv_lookup(env, IF storage = "HEADERS" THEN _normilize_key(key) ELSE key,
                       default_value)

Storages == {"HEADERS", "BODY", "QUERY"}

EnvKeys ==
    {None, <<"a">>, <<"b">>, <<"f", "o", "o">>, <<"Content-Type">>, <<"content-type">>}

EnvDefaults == {NoneVal, StrVal(<<"d">>)}

\* requests for the accessors: every hand-written body, limits never reached
InitEnv ==
    /\ InitUrl
    /\ flat.given = FALSE
    /\ max_content_length = Roomy

\* one call getenv(storage, key, default_value) on the parsed request
Getenv ==
    /\ pc = "done"
    /\ \E storage \in Storages, key \in EnvKeys, default_value \in EnvDefaults :
          /\ g_storage' = storage
          /\ g_key' = key
          /\ g_default' = default_value
          /\ g_result' = getenv(storage_of(storage), storage, key, default_value)
    /\ UNCHANGED <<mpvars, ppvars, uvars, mvars>>

NextEnv ==
    \/ BodyCheck
    \/ BodyRead
    \/ ParseQuery
    \/ Getenv

SpecEnv ==
    InitEnv /\ [][NextEnv]_vars

-----------------------------------------------------------------------------
(* FileUploader.move on a file system of one device where the process may    *)
(* write everywhere                                                          *)

\* self.tmp_dir
tmp_dir == <<"/", "t">>

isdir(f, path) ==
    path \in DOMAIN f /\ f[path].type = "dir"

isfile(f, path) ==
    path \in DOMAIN f /\ f[path].type = "file"

\* position of the last '/' of path, 0 if none
RECURSIVE last_slash(_, _)
last_slash(path, i) ==
    IF i = 0 THEN 0 ELSE IF path[i] = "/" THEN i ELSE last_slash(path, i - 1)

\* the directory part of path; <<>> is the root
dirname(path) ==
    SubSeq(path, 1, last_slash(path, Len(path)) - 1)

\* os.rename(src, dst) for a regular file src: the exception raised, "none" if
\* the rename is carried out
rename_err(f, src, dst) ==
    IF ~isfile(f, src) THEN "FileNotFoundError"
    ELSE IF dirname(dst) # <<>> /\ ~isdir(f, dirname(dst)) THEN "FileNotFoundError"
    ELSE IF isdir(f, dst) THEN "IsADirectoryError"
    ELSE "none"

\* the file system after a rename that is carried out
renamed(f, src, dst) ==
    [q \in (DOMAIN f \ {src}) \cup {dst} |-> IF q = dst THEN f[src] ELSE f[q]]

\* lines 1134-1138
move_rename(f, src, dst, err) ==
    IF err # "none" THEN [fs |-> f, result |-> None, err |-> "UploadedFileSaveError"]
    ELSE [fs |-> renamed(f, src, dst), result |-> dst, err |-> "none"]

\* move_checked without the test of lines 1131-1132
move_checked_no_test(f, src, dst, overwrite) ==
    move_rename(f, src, dst, rename_err(f, src, dst))

\* lines 1131-1138
move_checked(f, src, dst, overwrite) ==
    IF isfile(f, dst) /\ ~overwrite
    THEN [fs |-> f, result |-> None, err |-> "FileOverwriteError"]
    ELSE move_rename(f, src, dst, rename_err(f, src, dst))

\* lines 1127-1129: the argument test and the destination inside a directory
move(f, file, destination, overwrite) ==
    IF ~(file.kind = "dict" /\ dict_has(file.items, StrKey(<<"tmp_name">>)))
    THEN [fs |-> f, result |-> None, err |-> "MoveError"]
    ELSE IF ~isdir(f, destination)
    THEN move_checked(f, tmp_dir \o <<"/">> \o dict_get(file.items, StrKey(<<"tmp_name">>)).s,
                      destination, overwrite)
    ELSE IF ~dict_has(file.items, StrKey(<<"filename">>))
    THEN [fs |-> f, result |-> None, err |-> "KeyError"]
    ELSE move_checked(f, tmp_dir \o <<"/">> \o dict_get(file.items, StrKey(<<"tmp_name">>)).s,
                      destination \o <<"/">> \o dict_get(file.items, StrKey(<<"filename">>)).s,
                      overwrite)

\* most move calls on one file system
MaxMoves == 2

Dir == [type |-> "dir", data |-> <<>>]

File(data) == [type |-> "file", data |-> data]

\* a FILES record reduced to the keys move reads
Record(tmp_name, filename) ==
    DictVal(<<[k |-> StrKey(<<"filename">>), v |-> StrVal(filename)],
              [k |-> StrKey(<<"tmp_name">>), v |-> StrVal(tmp_name)]>>)

\* the spool directory with two uploaded files and the directory /d
BaseFs ==
    (<<"/", "t">> :> Dir) @@ (<<"/", "t", "/", "1">> :> File(<<"x">>))
    @@ (<<"/", "t", "/", "2">> :> File(<<"y">>)) @@ (<<"/", "d">> :> Dir)

\* what /d holds before the first call
DestFs ==
    {EmptyFs,
     (<<"/", "d", "/", "f">> :> File(<<"o">>)),
     (<<"/", "d", "/", "f">> :> Dir),
     (<<"/", "d", "/", "f">> :> File(<<"o">>)) @@ (<<"/", "d", "/", "g">> :> File(<<"p">>))}

MoveFiles ==
    {Record(<<"1">>, <<"f">>), Record(<<"2">>, <<"f">>), Record(<<"1">>, <<"g">>),
     Record(<<"3">>, <<"f">>),
     DictVal(<<[k |-> StrKey(<<"tmp_name">>), v |-> StrVal(<<"1">>)]>>),
     DictVal(<<[k |-> StrKey(<<"filename">>), v |-> StrVal(<<"f">>)]>>),
     StrVal(<<"1">>), NoneVal}

MoveDestinations ==
    {<<"/", "d">>, <<"/", "d", "/", "f">>, <<"/", "d", "/", "g">>, <<"/", "n", "/", "g">>}

\* no decode, _parse_param call or getenv call is under way
OthersIdle ==
    /\ body = <<>>
    /\ files_upload_on = TRUE
    /\ max_uploaded_files = 0
    /\ max_filesize = 0
    /\ max_content_length = 0
    /\ read_block_size = 0
    /\ parts = State0.parts
    /\ last_line = State0.last_line
    /\ files_counter = State0.files_counter
    /\ body_length = State0.body_length
    /\ disk = State0.disk
    /\ tmp_seq = State0.tmp_seq
    /\ open_files = State0.open_files
    /\ BODY = State0.BODY
    /\ FILES = State0.FILES
    /\ error = State0.error
    /\ closing_seen = State0.closing_seen
    /\ dispatched = State0.dispatched
    /\ remaining = 0
    /\ size = 0
    /\ pc = "idle"
    /\ p_name = <<>>
    /\ p_value = StrVal(<<>>)
    /\ p_tree = <<>>
    /\ p_prev = <<>>
    /\ p_err = "none"
    /\ p_calls = 0
    /\ p_pc = "idle"
    /\ content_type = None
    /\ query_string = None
    /\ QUERY = <<>>
    /\ body_reads = 0
    /\ flat = [given |-> FALSE, d |-> <<>>]
    /\ g_storage = "none"
    /\ g_key = None
    /\ g_default = NoneVal
    /\ g_result = NoneVal

InitMove ==
    /\ OthersIdle
    /\ \E d \in DestFs : fs = BaseFs @@ d
    /\ m_file = NoneVal
    /\ m_dest = <<>>
    /\ m_overwrite = FALSE
    /\ m_result = None
    /\ m_err = "none"
    /\ m_prev = EmptyFs
    /\ m_calls = 0

\* one call move(file, destination, overwrite)
Move ==
    /\ m_calls < MaxMoves
    /\ \E file \in MoveFiles, destination \in MoveDestinations, overwrite \in BOOLEAN :
       \E r \in {move(fs, file, destination, overwrite)} :
          /\ m_file' = file
          /\ m_dest' = destination
          /\ m_overwrite' = overwrite
          /\ m_prev' = fs
          /\ fs' = r.fs
          /\ m_result' = r.result
          /\ m_err' = r.err
    /\ m_calls' = m_calls + 1
    /\ UNCHANGED <<mpvars, ppvars, uvars, gvars>>

NextMove ==
    Move

SpecMove ==
    InitMove /\ [][NextMove]_vars

-----------------------------------------------------------------------------
(* File records stored in FILES one after the other by _parse_to_files, and  *)
(* the records FileUploader.move_all finds there                             *)

\* the names of the file parts
FileNames ==
    {<<"f">>, <<"g">>, <<"f", "[", "x", "]">>, <<"f", "[", "y", "]">>,
     <<"f", "[", "]">>, <<"f", "[", "x", "]", "[", "y", "]">>}

\* the record of the k-th file part of a request, as line 727 hands it over
StoredFile(k) ==
    file_record([NewPart EXCEPT !.filename = <<"f">>, !.length = 1, !.handle = "closed",
                                !.tmp_name = <<uploaded_file_prefix, md5_hexdigest[k]>>])

StoredFiles ==
    {StoredFile(k) : k \in 1..MaxCalls}

\* 'tmp_name' in file (lines 1162, 1165)
has_tmp_name(file) ==
    CASE file.kind = "dict" -> dict_has(file.items, StrKey(<<"tmp_name">>))
      [] file.kind = "str" -> find(file.s, <<"tmp_name">>, 1) # 0
      [] OTHER -> FALSE

\* lines 1161-1169 without the moves: the records handed to move, in order
RECURSIVE move_all_files(_)
move_all_file(file) ==
    IF file.kind = "dict" /\ ~has_tmp_name(file) THEN move_all_files(file.items)
    ELSE IF file.kind \in {"none", "int"} THEN [files |-> <<>>, err |-> "TypeError"]
    ELSE IF has_tmp_name(file) THEN [files |-> <<file>>, err |-> "none"]
    ELSE [files |-> <<>>, err |-> "MoveError"]

move_all_rest(head, rest) ==
    [files |-> head.files \o rest.files, err |-> rest.err]

move_all_next(head, fdict) ==
    IF head.err # "none" THEN head ELSE move_all_rest(head, move_all_files(Tail(fdict)))

move_all_files(fdict) ==
    IF fdict = <<>> THEN [files |-> <<>>, err |-> "none"]
    ELSE move_all_next(move_all_file(fdict[1].v), fdict)

\* line 727 for the next file part of the request
StoreFile ==
    /\ p_pc \in {"call", "ret"}
    /\ p_err = "none"
    /\ p_calls < MaxCalls
    /\ \E name \in FileNames :
       \E r \in {_parse_param(name, StoredFile(p_calls + 1), FILES)} :
          /\ p_name' = name
          /\ p_value' = StoredFile(p_calls + 1)
          /\ p_prev' = FILES
          /\ FILES' = r.tree
          /\ p_err' = r.err
    /\ p_calls' = p_calls + 1
    /\ p_pc' = "ret"
    /\ UNCHANGED <<body, files_upload_on, max_uploaded_files, max_filesize,
                   max_content_length, read_block_size, parts, last_line, files_counter,
                   body_length, disk, tmp_seq, open_files, BODY, error, remaining, size,
                   closing_seen, dispatched, pc, p_tree>>
    /\ UNCHANGED uvars
    /\ UNCHANGED gvars
    /\ UNCHANGED mvars

NextFiles ==
    StoreFile

SpecFiles ==
    InitParam /\ [][NextFiles]_vars

-----------------------------------------------------------------------------
(* Properties of the multipart decoder (specification Spec) *)

\* the decode of the whole body handed over as one block
WholeDecode ==
    finalized(_parse_data_block(State0, body))

RECURSIVE concat(_)
concat(ss) ==
    IF ss = <<>> THEN <<>> ELSE Head(ss) \o concat(Tail(ss))

RECURSIVE count(_, _)
count(s, sym) ==
    IF s = <<>> THEN 0 ELSE (IF Head(s) = sym THEN 1 ELSE 0) + count(Tail(s), sym)

\* the parts of the body whose Content-Disposition carries a filename parameter
NumFileParts == count(body, "filename")

RECURSIVE data_held(_, _)
data_held(ps, ks) ==
    IF ks = <<>> THEN 0 ELSE Len(ps[Head(ks)].data) + data_held(ps, Tail(ks))

\* bytes held in the in-memory buffers of the parts
DataHeld == data_held(parts, sorted_keys(DOMAIN parts))

\* bytes written to the spool file of part p
Written(p) ==
    IF p.tmp_name # None /\ p.tmp_name \in DOMAIN disk THEN Len(disk[p.tmp_name]) ELSE 0

QuotaErrors == {"MaxFilesError", "MaxFileSizeError", "MaxBodySizeError", "FilesUploadError"}

\* the finalisation passes have run (an exception in the read loop leaves
\* remaining above 0: line 451 is not reached)
Finalised == pc \in {"done", "raised"} /\ remaining <= 0

\* a file part _parse_to_files is to discard: empty filename, no bytes
Discardable(p) == p.filename = <<>> /\ p.length <= 0

\* the file records of a tree: the dicts that carry a tmp_name
RECURSIVE file_records(_)
file_records(d) ==
    UNION {IF d[i].v.kind # "dict" THEN {}
           ELSE IF dict_has(d[i].v.items, StrKey(<<"tmp_name">>)) THEN {d[i].v.items}
           ELSE file_records(d[i].v.items) : i \in 1..Len(d)}

SameOutcome(w) ==
    /\ error = w.error
    /\ error = "none" => (BODY = w.BODY /\ FILES = w.FILES)

\* C1: chunk-boundary independence: whatever read_block_size cuts the body
\* into, the decode ends as the decode of the body read as one block does: with
\* the same error, or with no error and the same BODY and FILES.
C1_ChunkIndependence ==
    pc \in {"done", "raised"} => SameOutcome(WholeDecode)

\* C2: while the decode runs (no exception, closing boundary not met), the
\* lines taken up so far, followed by the deferred tail _last_line, are exactly
\* the bytes read so far, and every line taken up is one CRLF-terminated line:
\* no line or fragment is taken up twice, dropped, or taken up unterminated.
C2_EveryLineOnce ==
    (pc = "read" /\ error = "none" /\ ~closing_seen) =>
        /\ \A k \in 1..Len(dispatched) :
              find(dispatched[k], CRLF, 1) = Len(dispatched[k]) - 1
        /\ concat(dispatched) \o last_line = SubSeq(body, 1, Len(body) - remaining)

\* C3: once a line starting with the closing boundary has been met, reading the
\* blocks that follow changes no part, no counter, no spool file and raises no
\* exception.
C3_ClosedStaysClosed ==
    [][(closing_seen /\ pc = "read" /\ remaining > 0) =>
          /\ parts' = parts
          /\ files_counter' = files_counter
          /\ body_length' = body_length
          /\ disk' = disk
          /\ error' = error]_vars

\* the body with the single text field of C4's scenario: its value is longer
\* than the Tight limit
OverlongFieldBody ==
    make_body(<<>>,
              <<[kind |-> "field", has_payload |-> TRUE, payload |-> <<"x">> \o CRLF \o <<"x">>]>>,
              <<>>)

\* C4: the bytes held in the buffers of the parts never exceed
\* max_content_length; while the blocks are read they are the cumulative count
\* _body_length; MaxBodySizeError is raised exactly when a line takes that count
\* above the limit, and that line is not appended; the one-field body whose
\* value is longer than the limit, read as one block, ends in MaxBodySizeError.
C4_BodyQuota ==
    /\ DataHeld <= max_content_length
    /\ pc = "read" => DataHeld = body_length
    /\ (body_length > max_content_length) <=> (error = "MaxBodySizeError")
    /\ (body = OverlongFieldBody /\ max_content_length = Tight /\ read_block_size = 0
            /\ pc # "read") => error = "MaxBodySizeError"

\* C4 witness: MaxBodySizeError was raised with the buffers filled to the limit.
C4_Witness ==
    error = "MaxBodySizeError" /\ DataHeld = max_content_length /\ DataHeld > 0

\* C5: no spool file ever holds more than max_filesize bytes; a file part whose
\* count has passed the limit has raised MaxFileSizeError and the decode is
\* over (no step can follow, so nothing more is written); short of that, with
\* uploads on, a part's spool file holds exactly the bytes counted for it.
C5_FileQuota ==
    /\ \A f \in DOMAIN disk : Len(disk[f]) <= max_filesize
    /\ \A idx \in DOMAIN parts :
          LET p == parts[idx] IN
          p.filename # None =>
              /\ Written(p) <= max_filesize
              /\ p.length > max_filesize =>
                    (error = "MaxFileSizeError" /\ pc = "raised" /\ Written(p) < p.length)
              /\ (p.length <= max_filesize /\ p.handle = "open") => Written(p) = p.length
    /\ error = "MaxFileSizeError" =>
          /\ ~ENABLED Next
          /\ \E idx \in DOMAIN parts : parts[idx].length > max_filesize

\* C5 witness: a body read as one block ended in MaxFileSizeError, the overlong
\* line left out of the spool file.
C5_Witness ==
    /\ error = "MaxFileSizeError"
    /\ read_block_size = 0
    /\ \E idx \in DOMAIN parts :
          parts[idx].length > max_filesize /\ Written(parts[idx]) <= max_filesize

\* C6: the file starts counted are the Content-Disposition lines with a
\* filename parameter taken up so far; MaxFilesError is raised only for a body
\* with more than max_uploaded_files file parts, before the part that exceeds
\* the limit has a spool file, and no body with more file parts than the limit
\* is decoded to the end.
C6_FileCount ==
    /\ error \in {"none", "MaxFilesError"} =>
          files_counter = count(concat(dispatched), "filename")
    /\ error = "MaxFilesError" =>
          /\ NumFileParts > max_uploaded_files
          /\ \A idx \in DOMAIN parts :
                (\A j \in DOMAIN parts : j <= idx) => parts[idx].handle = "absent"
    /\ pc = "done" => NumFileParts <= max_uploaded_files

\* C7 (for a body that opens with a boundary line and is read as one block):
\* with uploads off, the decode of a body with a file part ends in
\* FilesUploadError, and no spool file exists.
C7_UploadsOff ==
    (~files_upload_on /\ NumFileParts >= 1 /\ read_block_size = 0
        /\ startswith(body, part_boundary) /\ pc \in {"done", "raised"}) =>
        (error = "FilesUploadError" /\ DOMAIN disk = {})

\* C8: a decode aborted by FilesUploadError or by a quota error leaves BODY and
\* FILES empty.
C8_NoPartialEntry ==
    error \in QuotaErrors => (BODY = <<>> /\ FILES = <<>>)

\* C8 witness: FilesUploadError was raised for the second part of a body read
\* as one block, the first part complete.
C8_Witness ==
    /\ error = "FilesUploadError"
    /\ read_block_size = 0
    /\ Cardinality(DOMAIN parts) = 2
    /\ parts[1].has_data

\* C9: once the finalisation passes have run, the first file part left in the
\* parts table is not one to discard (no exception stopped at it), FILES holds
\* no record with an empty filename and no bytes, and after a completed decode
\* every spool file on disk belongs to a record of FILES.
C9_DiscardRule ==
    Finalised =>
        /\ \A idx \in DOMAIN parts :
              (parts[idx].filename # None
                  /\ \A j \in DOMAIN parts : parts[j].filename # None => idx <= j)
              => ~Discardable(parts[idx])
        /\ \A r \in file_records(FILES) :
              ~(dict_get(r, StrKey(<<"filename">>)) = StrVal(<<>>)
                  /\ dict_get(r, StrKey(<<"length">>)) = IntVal(0))
        /\ pc = "done" =>
              \A f \in DOMAIN disk :
                  \E r \in file_records(FILES) : dict_get(r, StrKey(<<"tmp_name">>)) = StrVal(f)

\* position of the first payload byte of the first part: right after the
\* blank line that ends its headers
FirstPayloadStart ==
    find(body, CRLF \o CRLF, 1) + 4

\* the first part has a payload: its header block is not followed by a
\* boundary line at once
FirstHasPayload ==
    ~startswith(SubSeq(body, FirstPayloadStart, Len(body)), part_boundary)

\* the bytes between the blank line and the CRLF before the next boundary line
FirstPayload ==
    SubSeq(body, FirstPayloadStart,
           find(body, CRLF \o part_boundary, FirstPayloadStart) - 1)

\* the header block of the first part carries a filename parameter
FirstIsFile ==
    find(SubSeq(body, 1, FirstPayloadStart - 1), <<"filename">>, 1) # 0

\* C22: after a decode without error the payload stored for the first part
\* (name a) is exactly the bytes between the blank line ending its headers and
\* the CRLF before the next boundary line: in BODY for a field, in the spool
\* file of its record for a file.
C22_ExactPayload ==
    (pc = "done" /\ error = "none" /\ FirstHasPayload) =>
        /\ (~FirstIsFile /\ dict_has(BODY, StrKey(<<"a">>))) =>
               dict_get(BODY, StrKey(<<"a">>)) = StrVal(FirstPayload)
        /\ (FirstIsFile /\ dict_has(FILES, StrKey(<<"a">>))) =>
               disk[dict_get(dict_get(FILES, StrKey(<<"a">>)).items,
                             StrKey(<<"tmp_name">>)).s] = FirstPayload

-----------------------------------------------------------------------------
\* C23: a line met while no part is open is ignored.  For a body that starts
\* with a preamble line, a first block that holds preamble bytes only raises
\* nothing and leaves the parts table and both counters as they were.
PreambleLine == <<"x">> \o CRLF

FirstBlockRaised == pc = "raised" /\ remaining = Len(body)

FirstBlockRead == pc = "read" /\ remaining = Len(body) - read_block_size

C23_PreambleIgnored ==
    (startswith(body, PreambleLine) /\ read_block_size \in 1..Len(PreambleLine)) =>
        /\ ~FirstBlockRaised
        /\ FirstBlockRead =>
              /\ parts = State0.parts
              /\ files_counter = State0.files_counter
              /\ body_length = State0.body_length

\* a file part _parse_to_files skips (lines 706-717)
Discarded(p) == p.filename = <<>> /\ p.length <= 0

\* every part record has a name, and every file part a spool file
NamedAndSpooled ==
    \A k \in DOMAIN parts :
        parts[k].name # None /\ (parts[k].filename # None => parts[k].handle # "absent")

\* the record p went to exactly the tree it belongs to, or to none when skipped
AccountedOnce(p, body_tree, files_tree) ==
    LET in_body  == dict_has(body_tree, StrKey(p.name))
        in_files == dict_has(files_tree, StrKey(p.name))
    IN  IF p.filename = None THEN in_body /\ ~in_files
        ELSE IF Discarded(p) THEN ~in_body /\ ~in_files
        ELSE in_files /\ ~in_body

\* C25: the finalisation passes, run after the last block on part records that
\* have a name (file parts a spool file too), end without error with every
\* record accounted for once: a file part skipped or in FILES under its name, a
\* non-file part, with or without a payload line, in BODY under its name, none in
\* both trees, and the parts table empty.
C25_PartsAccounted ==
    [][(pc = "read" /\ remaining <= 0 /\ error = "none" /\ NamedAndSpooled) =>
          /\ pc' = "done"
          /\ parts' = <<>>
          /\ \A k \in DOMAIN parts : AccountedOnce(parts[k], BODY', FILES')]_vars

\* C26: the read loop of _parse_multipart ends for every body and every
\* read_block_size; every read asks for at least one byte and at most
\* read_block_size bytes (the whole declared length when read_block_size <= 0)
\* and never for more than is left, each block read without error takes its
\* size off what remains, so that the sizes asked for sum to the declared length
\* when nothing is left; then the finalisation passes run, and a decode that ends
\* without error has emptied the parts table into BODY and FILES.
C26_ReadLoopTerminates ==
    /\ [](remaining \in 0..Len(body))
    /\ [][(pc = "read" /\ remaining > 0) =>
             /\ size' \in 1..buff_len
             /\ size' <= remaining
             /\ error' = "none" => (remaining' = remaining - size' /\ pc' = "read")]_vars
    /\ [](pc = "done" => (remaining = 0 /\ parts = <<>>))
    /\ <>(pc \in {"done", "raised"})

\* C26 witness: a decode read in more than one block, the last one shorter than
\* read_block_size, has ended with nothing left to read and the parts finalised.
C26_Witness ==
    /\ pc = "done"
    /\ remaining = 0
    /\ read_block_size > 0
    /\ size < read_block_size
    /\ read_block_size < Len(body)
    /\ BODY # <<>>

\* C27: no header line of a part is ever appended to a payload.  The payloads
\* of the bodies hold x and line ends only, so a Content-Disposition symbol in
\* the buffer of a part or in a spool file is a header line of a later part,
\* taken as payload of the part before it.
C27_NoHeaderInPayload ==
    /\ \A k \in DOMAIN parts : count(parts[k].data, "Content-Disposition") = 0
    /\ \A f \in DOMAIN disk : count(disk[f], "Content-Disposition") = 0

\* the spool file of a record stored in FILES
SpoolOf(rec) == dict_get(rec.items, StrKey(<<"tmp_name">>)).s

\* C28: after a decode that ended without error, every record of FILES has a
\* spool file on disk whose size is the record's length, the handle of that
\* file is closed, and the record has neither a handle nor a name entry.
C28_FileRecords ==
    (pc = "done" /\ error = "none") =>
        \A i \in 1..Len(FILES) :
            LET rec == FILES[i].v IN
            /\ rec.kind = "dict"
            /\ dict_has(rec.items, StrKey(<<"tmp_name">>))
            /\ SpoolOf(rec) \in DOMAIN disk
            /\ dict_get(rec.items, StrKey(<<"length">>)) = IntVal(Len(disk[SpoolOf(rec)]))
            /\ SpoolOf(rec) \notin open_files
            /\ ~dict_has(rec.items, StrKey(<<"handle">>))
            /\ ~dict_has(rec.items, StrKey(<<"name">>))

\* C28 witness: a decode read in several blocks ended with a file record in
\* FILES whose spool file holds a payload of two lines.
C28_Witness ==
    /\ pc = "done"
    /\ error = "none"
    /\ read_block_size > 0
    /\ read_block_size < Len(body)
    /\ \E i \in 1..Len(FILES) : Len(disk[SpoolOf(FILES[i].v)]) > 2

(* Properties of _parse_param (specification SpecParam) *)

NoBrackets(name) ==
    \A k \in 1..Len(name) : name[k] \notin {"[", "]"}

\* C10: a call of _parse_param with a name without brackets on an empty dict
\* raises nothing and leaves exactly {name: value}.
C10_FlatInsert ==
    (p_pc = "ret" /\ p_prev = <<>> /\ NoBrackets(p_name)) =>
        (p_err = "none" /\ p_tree = <<[k |-> StrKey(p_name), v |-> p_value]>>)

\* C10 witness: the two-symbol name ab was stored in the empty dict.
C10_Witness ==
    /\ p_pc = "ret"
    /\ p_prev = <<>>
    /\ p_name = <<"a", "b">>
    /\ p_tree = <<[k |-> StrKey(<<"a", "b">>), v |-> p_value]>>

\* the dict {a: {0: .., 1: .., ..}} that holds n appended entries, keys in
\* insertion order (the empty dict for n = 0)
AppendItems(t) ==
    IF t = <<>> THEN <<>> ELSE t[1].v.items

IsAppendTree(t) ==
    \/ t = <<>>
    \/ /\ Len(t) = 1
       /\ t[1].k = StrKey(<<"a">>)
       /\ t[1].v.kind = "dict"
       /\ Len(t[1].v.items) > 0
       /\ \A i \in 1..Len(t[1].v.items) : t[1].v.items[i].k = IntKey(i - 1)

\* C11: on a dict built by n insertions of a[] the next insertion of a[]
\* raises nothing, gets the integer key n (greater than every earlier key) and
\* is stored after the earlier entries, none of which is changed.
C11_AppendKeys ==
    (p_pc = "ret" /\ p_name = <<"a", "[", "]">> /\ IsAppendTree(p_prev)) =>
        /\ p_err = "none"
        /\ p_tree = <<[k |-> StrKey(<<"a">>),
                       v |-> DictVal(Append(AppendItems(p_prev),
                                            [k |-> IntKey(Len(AppendItems(p_prev))),
                                             v |-> p_value]))]>>

\* C11 witness: the third insertion of a[] got key 2 after keys 0 and 1.
C11_Witness ==
    /\ p_pc = "ret"
    /\ p_name = <<"a", "[", "]">>
    /\ p_calls = 3
    /\ IsAppendTree(p_prev)
    /\ Len(AppendItems(p_prev)) = 2
    /\ keys(AppendItems(p_tree)) = <<IntKey(0), IntKey(1), IntKey(2)>>

\* the base name of p_name holds a scalar before the call
BaseScalar ==
    /\ rx_keys_findall(p_name) # <<>>
    /\ dict_has(p_prev, StrKey(rx_name_sub(p_name)))
    /\ dict_get(p_prev, StrKey(rx_name_sub(p_name))).kind # "dict"

\* the segment x of a[x][y] holds a scalar before the call
InnerScalar ==
    /\ p_name = <<"a", "[", "x", "]", "[", "y", "]">>
    /\ dict_has(p_prev, StrKey(<<"a">>))
    /\ dict_get(p_prev, StrKey(<<"a">>)).kind = "dict"
    /\ dict_has(dict_get(p_prev, StrKey(<<"a">>)).items, StrKey(<<"x">>))
    /\ dict_get(dict_get(p_prev, StrKey(<<"a">>)).items, StrKey(<<"x">>)).kind # "dict"

\* C12: when a segment before the terminal one (the base name included) holds
\* a scalar, the call raises nothing and that segment holds a container
\* afterwards.
C12_CollisionReplaced ==
    (p_pc = "ret" /\ (BaseScalar \/ InnerScalar)) =>
        /\ p_err = "none"
        /\ dict_get(p_tree, StrKey(rx_name_sub(p_name))).kind = "dict"
        /\ InnerScalar =>
              dict_get(dict_get(p_tree, StrKey(<<"a">>)).items, StrKey(<<"x">>)).kind = "dict"

\* the key an explicit bracket segment denotes (lines 655-658)
explicit_key(key) ==
    IF int_ok(key) THEN IntKey(int_of(key)) ELSE StrKey(key)

RECURSIVE bracketed(_)
bracketed(param_keys) ==
    IF param_keys = <<>> THEN <<>>
    ELSE <<"[">> \o Head(param_keys) \o <<"]">> \o bracketed(Tail(param_keys))

\* name is a base name followed by non-empty bracket segments, or by none
ExplicitName(name) ==
    /\ name = rx_name_sub(name) \o bracketed(rx_keys_findall(name))
    /\ \A i \in 1..Len(rx_keys_findall(name)) : rx_keys_findall(name)[i] # <<>>

Missing ==
    [kind |-> "missing", s |-> <<>>, n |-> 0, items |-> <<>>]

RECURSIVE path_get(_, _, _)
\* the value found by following param_keys from position j on inside v
path_get(v, param_keys, j) ==
    IF j > Len(param_keys) THEN v
    ELSE IF v.kind # "dict" \/ ~dict_has(v.items, explicit_key(param_keys[j])) THEN Missing
    ELSE path_get(dict_get(v.items, explicit_key(param_keys[j])), param_keys, j + 1)

path_value(tree, name) ==
    IF ~dict_has(tree, StrKey(rx_name_sub(name))) THEN Missing
    ELSE path_get(dict_get(tree, StrKey(rx_name_sub(name))), rx_keys_findall(name), 1)

\* C13: after a call whose name has only explicit bracket segments, or none,
\* no exception was raised and the value at exactly that path is the value
\* handed in.
C13_LastWriteWins ==
    (p_pc = "ret" /\ ExplicitName(p_name)) =>
        (p_err = "none" /\ path_value(p_tree, p_name) = p_value)

\* the integer keys of a dict
IntKeys(items) ==
    {items[i].k.n : i \in {j \in 1..Len(items) : items[j].k.t = "i"}}

\* 1 + the greatest integer key, 0 when there is none
ExpectedNextKey(items) ==
    IF IntKeys(items) = {} THEN 0
    ELSE 1 + CHOOSE n \in IntKeys(items) : \A o \in IntKeys(items) : o <= n

\* the dict under a before the call (empty when a is absent)
PrevLevel ==
    IF dict_has(p_prev, StrKey(<<"a">>)) THEN dict_get(p_prev, StrKey(<<"a">>)).items ELSE <<>>

\* C20: a call with the name a[] on a dict whose entry a is a dict or absent
\* stores the value under the integer key 1 + max of the integer keys of that
\* level, 0 when it has none, as a new entry, whatever the keys of the level
\* are and in whatever order they were inserted.
C20_NextKey ==
    (/\ p_pc = "ret"
     /\ p_name = <<"a", "[", "]">>
     /\ (dict_has(p_prev, StrKey(<<"a">>)) => dict_get(p_prev, StrKey(<<"a">>)).kind = "dict")) =>
        /\ p_err = "none"
        /\ dict_get(p_tree, StrKey(<<"a">>)).items =
              Append(PrevLevel, [k |-> IntKey(ExpectedNextKey(PrevLevel)), v |-> p_value])

-----------------------------------------------------------------------------
(* Properties of the url-encoded decoder (specification SpecUrl) *)

DocTree ==
    <<[k |-> StrKey(<<"f", "o", "o">>),
       v |-> DictVal(<<[k |-> IntKey(0),
                        v |-> DictVal(<<[k |-> StrKey(<<"b", "a", "r">>), v |-> StrVal(<<"1">>)]>>)],
                       [k |-> IntKey(1),
                        v |-> DictVal(<<[k |-> StrKey(<<"b", "a", "z">>), v |-> StrVal(<<"2">>)]>>)],
                       [k |-> StrKey(<<"x", "y", "z">>), v |-> StrVal(<<"7", "7", "7">>)]>>)]>>

\* C14: once the body foo[][bar]=1&foo[][baz]=2&foo[xyz]=777 has been read
\* and decoded, BODY is {foo: {0: {bar: '1'}, 1: {baz: '2'}, xyz: '777'}}.
C14_DocExample ==
    (body = DocExample /\ body_reads = 1) => BODY = DocTree

\* C14 witness: the request with that body was decoded to the end.
C14_Witness ==
    /\ body = DocExample
    /\ pc = "done"
    /\ error = "none"
    /\ BODY = DocTree

\* some pair of the '&'-separated string s has no '='
LacksEq(s) ==
    /\ s # <<>>
    /\ s # None
    /\ \E i \in 1..Len(split(s, <<"&">>)) : Len(split(split(s, <<"&">>)[i], <<"=">>)) = 1

\* C15: when a pair of the decoded string has no '=', the decode ends with an
\* exception and the storage it was to fill (BODY for the body, QUERY for the
\* query string) is as it was before, empty; the empty string decodes to the
\* empty dict.
C15_AllOrNothing ==
    /\ (body_reads = 1 /\ LacksEq(body)) => (error # "none" /\ pc = "raised" /\ BODY = <<>>)
    /\ (pc \in {"done", "raised"} /\ LacksEq(query_string)) =>
           (error # "none" /\ pc = "raised" /\ QUERY = <<>>)
    /\ (pc = "done" /\ query_string = <<>>) => QUERY = <<>>

\* C15 witness: the body a=v&b was read and the decode raised ValueError with
\* BODY still empty.
C15_Witness ==
    /\ body = <<"a", "=", "v", "&", "b">>
    /\ body_reads = 1
    /\ error = "ValueError"
    /\ BODY = <<>>

\* C16 as stated: once _parse_body has run on a body longer than
\* max_content_length, MaxBodySizeError was raised, no read was issued and BODY
\* is empty.
C16_OversizeRaises ==
    (pc # "check" /\ Len(body) > max_content_length) =>
        (error = "MaxBodySizeError" /\ body_reads = 0 /\ BODY = <<>>)

\* C16 amended: the same for a request that carries a Content-Type header.
C16_OversizeRaisesTyped ==
    (pc # "check" /\ Len(body) > max_content_length /\ content_type \notin {None, <<>>}) =>
        (error = "MaxBodySizeError" /\ body_reads = 0 /\ BODY = <<>>)

\* C16 witness: a body longer than the limit, sent as
\* application/x-www-form-urlencoded, was refused unread.
C16_Witness ==
    /\ content_type = <<"application/x-www-form-urlencoded">>
    /\ Len(body) > max_content_length
    /\ pc = "raised"
    /\ error = "MaxBodySizeError"
    /\ body_reads = 0

\* C17: when the body is the url-encoding of a flat dict and has been read and
\* decoded, BODY is that dict (BODY is assigned only when the decode raised
\* nothing); the encoding of the empty dict decodes to the empty dict.
C17_RoundTrip ==
    /\ (flat.given /\ body_reads = 1) => BODY = flat.d
    /\ (pc = "done" /\ query_string = urlencode(<<>>)) => QUERY = <<>>

\* C17 witness: a dict of two entries with keys and values that need escaping
\* came back from the decode.
C17_Witness ==
    /\ flat.given
    /\ body_reads = 1
    /\ Len(flat.d) = 2
    /\ flat.d[1].k.s = <<"&">>
    /\ flat.d[2].k.s = <<" ">>
    /\ flat.d[1].v.s = <<"&">>
    /\ BODY = flat.d

\* C21: once the body a=v&b=w=x has been read and decoded, BODY is
\* {a: 'v', b: 'w=x'}: the pair b=w=x is split on its first '=' only.
C21_FirstEquals ==
    (body = <<"a", "=", "v", "&", "b", "=", "w", "=", "x">> /\ body_reads = 1) =>
        BODY = <<[k |-> StrKey(<<"a">>), v |-> StrVal(<<"v">>)],
                 [k |-> StrKey(<<"b">>), v |-> StrVal(<<"w", "=", "x">>)]>>

-----------------------------------------------------------------------------
\* the url-encoded decode of the whole declared body
WholeBodyDecode ==
    LET d == _decode_value(body)
    IN  IF d.err # "none" THEN [tree |-> <<>>, err |-> d.err]
        ELSE _parse_query_params(d.v)

\* the outcome of one read of the whole declared body, decoded into BODY
ReadWholeAndDecoded ==
    /\ body_reads = 1
    /\ IF WholeBodyDecode.err = "none" THEN BODY = WholeBodyDecode.tree
       ELSE pc = "raised" /\ error = WholeBodyDecode.err /\ BODY = <<>>

\* C24 as stated: once _parse_body has run on a non-multipart body of non-zero
\* length within max_content_length, with or without a content type, the whole
\* declared body was read in one read and decoded as url-encoded pairs into BODY.
C24_ReadAndDecoded ==
    (pc \notin {"check", "fetch", "multipart"} /\ Len(body) > 0
        /\ Len(body) <= max_content_length) => ReadWholeAndDecoded

\* C24 amended: the same for a request that carries a Content-Type header.
C24_ReadAndDecodedTyped ==
    (pc \notin {"check", "fetch", "multipart"} /\ Len(body) > 0
        /\ Len(body) <= max_content_length /\ content_type \notin {None, <<>>}) =>
            ReadWholeAndDecoded

\* C24 witness: the body a%3D=v%26 sent as text/plain was read once and
\* decoded into BODY.
C24_Witness ==
    /\ content_type = <<"text/plain">>
    /\ body = <<"a", "%", "3", "D", "=", "v", "%", "2", "6">>
    /\ body_reads = 1
    /\ BODY = <<[k |-> StrKey(<<"a", "=">>), v |-> StrVal(<<"v", "&">>)]>>

\* the records of a sequence, as a set
Range(seq) == {seq[i] : i \in 1..Len(seq)}

\* C29: a record stored in FILES is not used as a container by a later
\* insertion.  After a file part has been stored without error, move_all finds
\* it, and every record move_all finds is the record of one part, as it was
\* stored.
C29_OwnRecords ==
    (p_pc = "ret" /\ p_err = "none") =>
        /\ move_all_files(FILES).err = "none"
        /\ p_value \in Range(move_all_files(FILES).files)
        /\ Range(move_all_files(FILES).files) \subseteq StoredFiles

(* Properties of the accessors (specification SpecEnv) *)

\* C18: a getenv call without a key returned the whole storage dict; a call
\* with a key of the storage returned the value stored under it, any other
\* call default_value.
C18_Getenv ==
    g_storage # "none" =>
        g_result = IF g_key = None THEN DictVal(storage_of(g_storage))
                   ELSE IF dict_has(storage_of(g_storage), StrKey(g_key))
                   THEN dict_get(storage_of(g_storage), StrKey(g_key))
                   ELSE g_default

-----------------------------------------------------------------------------
(* Properties of FileUploader.move (specification SpecMove) *)

IsFileRecord(file) ==
    /\ file.kind = "dict"
    /\ dict_has(file.items, StrKey(<<"tmp_name">>))
    /\ dict_has(file.items, StrKey(<<"filename">>))

\* destination, or destination/filename when destination is a directory
Resolved ==
    IF isdir(m_prev, m_dest)
    THEN m_dest \o <<"/">> \o dict_get(m_file.items, StrKey(<<"filename">>)).s
    ELSE m_dest

TempPath ==
    tmp_dir \o <<"/">> \o dict_get(m_file.items, StrKey(<<"tmp_name">>)).s

\* C19: after a move call (a) without overwrite on a file record whose
\* resolved destination was an existing file, FileOverwriteError was raised and
\* the file system is as before; (b) with overwrite on a file record whose
\* temporary file existed and whose resolved destination was an existing file,
\* nothing was raised, the resolved path was returned, it holds the bytes of
\* the temporary file, the temporary path is gone and nothing else changed;
\* (c) on an argument that is no dict with a tmp_name, MoveError was raised and
\* the file system is as before.
C19_Move ==
    m_calls > 0 =>
        /\ (IsFileRecord(m_file) /\ ~m_overwrite /\ isfile(m_prev, Resolved)) =>
               (m_err = "FileOverwriteError" /\ fs = m_prev)
        /\ (IsFileRecord(m_file) /\ m_overwrite /\ isfile(m_prev, Resolved)
                /\ isfile(m_prev, TempPath)) =>
               /\ m_err = "none"
               /\ m_result = Resolved
               /\ DOMAIN fs = (DOMAIN m_prev \ {TempPath}) \cup {Resolved}
               /\ fs[Resolved] = m_prev[TempPath]
               /\ \A q \in DOMAIN fs \ {Resolved} : fs[q] = m_prev[q]
        /\ ~(m_file.kind = "dict" /\ dict_has(m_file.items, StrKey(<<"tmp_name">>))) =>
               (m_err = "MoveError" /\ fs = m_prev)

\* C19 witness, refusal: /d/f existed, move of upload 1 named f to the
\* directory /d without overwrite raised FileOverwriteError.
C19_Witness ==
    /\ m_calls > 0
    /\ m_file = Record(<<"1">>, <<"f">>)
    /\ m_dest = <<"/", "d">>
    /\ ~m_overwrite
    /\ isfile(m_prev, <<"/", "d", "/", "f">>)
    /\ m_err = "FileOverwriteError"

\* the overwriting case of C19 is reached: /d/f holds the bytes of upload 1
C19_Replaced ==
    /\ m_calls > 0
    /\ m_file = Record(<<"1">>, <<"f">>)
    /\ m_dest = <<"/", "d">>
    /\ m_overwrite
    /\ isfile(m_prev, <<"/", "d", "/", "f">>)
    /\ m_result = <<"/", "d", "/", "f">>
    /\ fs[<<"/", "d", "/", "f">>] = File(<<"x">>)

====
